---- MODULE Spec2Model ----
(***************************************************************************)
(* Reactive core of the framework: Dep / Watcher / scheduler / nextTick,   *)
(* and the virtual-DOM child-list diff (updateChildren).                   *)
(*                                                                         *)
(* The watcher evaluation functions and callbacks are user code; the model *)
(* draws what one invocation does from small sets: which fields a getter   *)
(* reads, what it returns, whether it throws or tears its own watcher      *)
(* down; which fields a callback writes, which watcher it tears down,      *)
(* whether it throws.                                                      *)
(***************************************************************************)
EXTENDS Integers, Sequences, FiniteSets, TLC

\* ---------------------------------------------------------------- bounds
NumWatchers == 3
NumFields == 2
MaxFlushWrites == 1
MaxCreated == 2
MaxRunawayFlushes == 1
MaxChildren == 3
MaxNodes == 4
MaxPatchCalls == 4
MaxBurst == 3
MaxSetterFlushes == 1
MaxObjs == 3
MaxElems == 2
MaxItems == 1

\* ------------------------------------------------------- program constants
MAX_UPDATE_COUNT == 100

Watchers == 1..NumWatchers
Fields == 1..NumFields
Vals == {"0", "1"}
NaN == "NaN"
Undef == "undefined"
Obj == "object"
Throw == "throw"

VARIABLES
  uid,        \* watcher.js: let uid = 0
  user,       \* Watcher.user, per watcher id
  lazy,       \* Watcher.lazy
  deep,       \* Watcher.deep
  path,       \* the watched field when expOrFn is a path, 0 for a function
  active,     \* Watcher.active
  dirty,      \* Watcher.dirty
  value,      \* Watcher.value
  deps,       \* Watcher.deps / depIds (the rotated dependency set)
  subs,       \* Dep.subs, per field: array of watcher ids
  val,        \* the closure variable val of each reactive field
  queue,      \* scheduler: queue (entries carry the run number they were queued at)
  has,        \* scheduler: has
  circular,   \* scheduler: circular
  waiting,    \* scheduler: waiting
  flushing,   \* scheduler: flushing
  index,      \* scheduler: index (0 based as in the source)
  callbacks,  \* next-tick: callbacks
  pending,    \* next-tick: pending
  phase,      \* where the single thread is: "idle", "loop" or "cb"
  cbWrites,   \* number of writes made by callbacks in the current flush
  budget,     \* flushes the behaviour may still start (Unlimited: any number)
  runLog,     \* history: the run() calls of the current / last flush
  outcome,    \* history: how the last flush ended
  warned,     \* history: watcher the runaway diagnostic was issued for (0: none)
  dropped,    \* history: entries still unprocessed when the flush loop was left
  reported,   \* history: errors handed to handleError since the last flush start
  burst,      \* history: the assignments logged since the last flush ended
  parentElm,  \* patch: the child nodes of the parent host node, in order
  oldCh,      \* patch: updateChildren's oldCh (entries become undefined)
  newCh,      \* patch: updateChildren's newCh (entries receive their elm)
  oldStartIdx,
  oldEndIdx,
  newStartIdx,
  newEndIdx,
  oldKeyToIdx, \* patch: the lazily built key map (empty domain: undefined)
  canMove,    \* patch: !removeOnly
  patching,   \* patch: "idle", "loop" (at the head of the while), "done", "throw"
  prevCh,     \* history: oldCh as it was passed to updateChildren
  hostOps,    \* history: the calls made on the host API (nodeOps)
  vtree,      \* patch: the vnode tree handed to patch
  inst,       \* the component instance of each component vnode of the tree
  patchCalls, \* history: the calls of patch made so far
  evLog,      \* history: the hooks and host creations these calls invoked
  setterLog,  \* history: the last assignment through a setter and the update() calls it made
  dep,        \* one Dep whose notify() is followed call by call
  reaction,   \* what update() of each of its subscribers does to the Dep's subs
  heap,       \* the data objects and arrays: fields, elements, __ob__
  opLog,      \* history: the Deps the last operation on the heap notified
  vm,         \* the component instances, by the id of their render watcher
  hookLog,    \* history: the lifecycle hooks called on each instance, in order
  updatedLog, \* history: the instances the last flush called updated on, in order
  cache,      \* keep-alive: this.cache (the instance of the cached vnode, 0: none)
  keys,       \* keep-alive: this.keys
  activatedChildren, \* scheduler: activatedChildren
  shown,      \* the component placeholder of the root's rendered tree
  view,       \* the root's reactive field that names the component to show
  wrap,       \* the root's template wraps the placeholder in <keep-alive>
  max,        \* keep-alive: the max prop (0: not given)
  lifeOps,    \* number of writes made to the instances' data so far
  uses,       \* the computed watcher that the getter of each watcher reads (0: none)
  evalLog,    \* history: the evaluations since the last update() of each watcher
  cbsRemove,  \* patch: cbs.remove.length, the number of module remove hooks
  rmVnode,    \* patch: the vnode being removed (own remove hook, component root)
  rm,         \* patch: the callback of createRmCb, the hooks that hold it (history: calls made late)
  host,       \* the host node of that vnode: attached, number of detachments
  factoryError, \* the async component factories whose error is set
  sameArgs,   \* two vnodes handed to sameVnode
  sameLog,    \* history: what sameVnode answered for them, in both orders
  target,     \* dep.js: Dep.target (0: null or undefined)
  targetStack, \* dep.js: targetStack
  frames,     \* the calls in progress, outermost first: a watcher's get(), or "hook"
  unwinding,  \* an error is on its way up through these calls
  newDeps,    \* Watcher.newDeps of each watcher while its getter runs
  readLog,    \* history: the last read of a reactive field, who was subscribed, whether an inner call had ended
  tick,       \* next-tick: callbacks, pending, the armed timers, the batch being run (history: registrations and runs)
  ka,         \* one <keep-alive> instance: cache, keys, max, _vnode (history: when each key was last rendered)
  dying,      \* one instance under $destroy: its flags, watchers, the hooks in progress (history: hooks and teardowns)
  router      \* History: current, pending, and the navigations started so far with their position in the guard queues

schedVars == <<queue, has, circular, waiting, flushing, index, callbacks, pending>>
watcherVars == <<uid, user, lazy, deep, path, active, dirty, value, deps>>
histVars == <<runLog, outcome, warned, dropped, reported, burst>>
patchVars == <<parentElm, oldCh, newCh, oldStartIdx, oldEndIdx, newStartIdx,
               newEndIdx, oldKeyToIdx, canMove, patching, prevCh, hostOps>>
treeVars == <<vtree, inst, patchCalls, evLog>>
notifyVars == <<dep, reaction>>
heapVars == <<heap, opLog>>
lifeVars == <<vm, hookLog, updatedLog, cache, keys, activatedChildren, shown, view, wrap,
             max, lifeOps>>
evalVars == <<uses, evalLog>>
removeVars == <<cbsRemove, rmVnode, rm, host>>
sameVars == <<factoryError, sameArgs, sameLog>>
targetVars == <<target, targetStack, frames, unwinding, newDeps, readLog>>
lateVars == <<tick, ka, dying, router>>
restVars == <<removeVars, sameVars, targetVars, lateVars>>
obsVars == <<setterLog, notifyVars, heapVars, lifeVars, evalVars, restVars>>
vars == <<watcherVars, subs, val, schedVars, phase, cbWrites, budget, histVars,
          patchVars, treeVars, obsVars>>

Unlimited == 0 - 1

\* ------------------------------------------------------------ sequences
SeqIds(q) == [i \in 1..Len(q) |-> q[i].id]

InsertAt(s, pos, e) ==
  \* Array.prototype.splice(pos, 0, e) with a 0-based pos
  SubSeq(s, 1, pos) \o <<e>> \o SubSeq(s, pos + 1, Len(s))

RECURSIVE SortedInsert(_, _)
SortedInsert(s, e) ==
  IF s = <<>> THEN <<e>>
  ELSE IF s[Len(s)].id <= e.id THEN Append(s, e)
       ELSE Append(SortedInsert(SubSeq(s, 1, Len(s) - 1), e), s[Len(s)])

\* mutant: the queue is flushed in the order the watchers were pushed
SortById_Unsorted(s) == s

RECURSIVE SortById(_)
SortById(s) ==
  \* queue.sort((a, b) => a.id - b.id): stable ascending sort
  IF s = <<>> THEN <<>>
  ELSE SortedInsert(SortById(SubSeq(s, 1, Len(s) - 1)), s[Len(s)])

RECURSIVE IndexOf(_, _, _)
IndexOf(s, x, i) ==
  IF i > Len(s) THEN 0 ELSE IF s[i] = x THEN i ELSE IndexOf(s, x, i + 1)

remove(s, x) ==
  \* shared/util remove(arr, item): drops the first occurrence
  LET i == IndexOf(s, x, 1)
  IN IF i = 0 THEN s ELSE SubSeq(s, 1, i - 1) \o SubSeq(s, i + 1, Len(s))

Range(s) == {s[i] : i \in 1..Len(s)}

\* ------------------------------------------------------------------ Dep
addSub(sb, d, w) == [sb EXCEPT ![d] = Append(@, w)]

removeSub(sb, d, w) == [sb EXCEPT ![d] = remove(@, w)]

RECURSIVE addSubs(_, _, _)
addSubs(sb, D, w) ==
  IF D = {} THEN sb
  ELSE LET d == CHOOSE x \in D : TRUE IN addSubs(addSub(sb, d, w), D \ {d}, w)

RECURSIVE removeSubs(_, _, _)
removeSubs(sb, D, w) ==
  IF D = {} THEN sb
  ELSE LET d == CHOOSE x \in D : TRUE IN removeSubs(removeSub(sb, d, w), D \ {d}, w)

\* -------------------------------------------------------------- Watcher
\* addDep for every field of D read while w is Dep.target; st carries the
\* subscriber lists and w's newDepIds
RECURSIVE addDep(_, _, _)
addDep(st, w, D) ==
  IF D = {} THEN st
  ELSE LET d == CHOOSE x \in D : TRUE
           st1 == IF d \in st.newDepIds THEN st
                  ELSE [newDepIds |-> st.newDepIds \cup {d},
                        subs |-> IF d \in deps[w] THEN st.subs
                                 ELSE addSub(st.subs, d, w)]
       IN addDep(st1, w, D \ {d})

\* mutant: the Deps that were not read again keep the watcher
cleanupDeps_Keep(sb, w, newDepIds) == sb

cleanupDeps(sb, w, newDepIds) == removeSubs(sb, deps[w] \ newDepIds, w)

teardown(sb, w) == IF active[w] THEN removeSubs(sb, deps[w], w) ELSE sb

\* One evaluation get() of watcher w: the getter reads the fields A, then
\* (when td) calls w.teardown() and reads the fields B; the finally block
\* pops the target and runs cleanupDeps.  Yields the subscriber lists and
\* the rotated dependency set.
get(sb, w, A, td, B) ==
  LET s1 == addDep([newDepIds |-> {}, subs |-> sb], w, A)
      s2 == IF td THEN [s1 EXCEPT !.subs = teardown(s1.subs, w)] ELSE s1
      s3 == IF td THEN addDep(s2, w, B) ELSE s2
  IN [subs |-> cleanupDeps(s3.subs, w, s3.newDepIds), deps |-> s3.newDepIds]

\* what a getter may do in one evaluation
GetterReads(w) == IF path[w] > 0 THEN {{path[w]}} ELSE SUBSET Fields
GetterResults(w) ==
  IF path[w] > 0 THEN {val[path[w]], Throw}
  ELSE IF lazy[w] THEN {Obj, Throw}
  ELSE {Undef, Throw}

\* ------------------------------------------------------------ next-tick
nextTick(R) ==
  [R EXCEPT !.callbacks = Append(@, "flushSchedulerQueue"), !.pending = TRUE]

\* ------------------------------------------------------------ scheduler
\* mutant: no backward scan, the watcher is put at the end of the queue
ScanBack_ToEnd(q, i, w) == i

RECURSIVE ScanBack(_, _, _)
ScanBack(q, i, w) ==
  \* while (i > index && queue[i].id > watcher.id) i--
  IF i > index /\ q[i + 1].id > w THEN ScanBack(q, i - 1, w) ELSE i

\* the scheduler state a setter works on; calls collects the watchers whose
\* update() is called
Sched == [queue |-> queue, has |-> has, waiting |-> waiting,
          callbacks |-> callbacks, pending |-> pending, dirty |-> dirty,
          calls |-> <<>>]

\* mutant: no membership test, every update() pushes the watcher again
queueWatcher_NoHas(R, w) ==
  LET e == [id |-> w, at |-> IF flushing THEN Len(runLog) ELSE 0]
      q1 == IF ~flushing THEN Append(R.queue, e)
            ELSE InsertAt(R.queue, ScanBack(R.queue, Len(R.queue) - 1, w) + 1, e)
      R1 == [R EXCEPT !.has = @ \cup {w}, !.queue = q1]
  IN IF ~R1.waiting THEN nextTick([R1 EXCEPT !.waiting = TRUE]) ELSE R1

\* mutant: every enqueue hands the flush to nextTick
queueWatcher_NoWaiting(R, w) ==
  IF w \in R.has THEN R
  ELSE LET e == [id |-> w, at |-> IF flushing THEN Len(runLog) ELSE 0]
           q1 == IF ~flushing THEN Append(R.queue, e)
                 ELSE InsertAt(R.queue, ScanBack(R.queue, Len(R.queue) - 1, w) + 1, e)
           R1 == [R EXCEPT !.has = @ \cup {w}, !.queue = q1]
       IN nextTick([R1 EXCEPT !.waiting = TRUE])

queueWatcher(R, w) ==
  IF w \in R.has THEN R
  ELSE LET e == [id |-> w, at |-> IF flushing THEN Len(runLog) ELSE 0]
           q1 == IF ~flushing THEN Append(R.queue, e)
                 ELSE InsertAt(R.queue, ScanBack(R.queue, Len(R.queue) - 1, w) + 1, e)
           R1 == [R EXCEPT !.has = @ \cup {w}, !.queue = q1]
       IN IF ~R1.waiting THEN nextTick([R1 EXCEPT !.waiting = TRUE]) ELSE R1

\* mutant: update() hands a lazy watcher to the scheduler as well
update_QueuesLazy(R, w) == queueWatcher([R EXCEPT !.calls = Append(@, w)], w)

update(R, w) ==
  LET R0 == [R EXCEPT !.calls = Append(@, w)]
  IN IF lazy[w] THEN [R0 EXCEPT !.dirty[w] = TRUE]
     ELSE queueWatcher(R0, w)

RECURSIVE notifySubs(_, _, _)
notifySubs(R, snapshot, i) ==
  IF i > Len(snapshot) THEN R
  ELSE notifySubs(update(R, snapshot[i]), snapshot, i + 1)

notify(R, d) == notifySubs(R, subs[d], 1)

\* a === b
strictEq(a, b) == a = b /\ a /= NaN

\* mutant: the setter without the test for self-unequal values
unchanged_NoSelfUnequal(newVal, old) == strictEq(newVal, old)

\* reactiveSetter: newVal === value || (newVal !== newVal && value !== value)
unchanged(newVal, old) ==
  strictEq(newVal, old) \/ (~strictEq(newVal, newVal) /\ ~strictEq(old, old))

\* reactiveSetter: an assignment of v to field d
reactiveSetter(R, d, v) == IF unchanged(v, val[d]) THEN R ELSE notify(R, d)

SetSched(R) ==
  /\ queue' = R.queue
  /\ has' = R.has
  /\ waiting' = R.waiting
  /\ callbacks' = R.callbacks
  /\ pending' = R.pending
  /\ dirty' = R.dirty

\* ----------------------------------------------------------------- Init
\* no child list is being patched
NoPatch ==
  /\ parentElm = <<>>
  /\ oldCh = <<>>
  /\ newCh = <<>>
  /\ oldStartIdx = 0
  /\ oldEndIdx = 0 - 1
  /\ newStartIdx = 0
  /\ newEndIdx = 0 - 1
  /\ oldKeyToIdx = <<>>
  /\ canMove = TRUE
  /\ patching = "idle"
  /\ prevCh = <<>>
  /\ hostOps = <<>>

\* no vnode tree has been handed to patch
NoTree ==
  /\ vtree = <<>>
  /\ patchCalls = <<>>
  /\ evLog = <<>>
  /\ inst = <<>>

IdleDep(sb) ==
  [subs |-> sb, before |-> <<>>, snapshot |-> <<>>, i |-> 0, calls |-> <<>>,
   at |-> "idle"]

\* no Dep is followed
NoNotify ==
  /\ dep = IdleDep(<<>>)
  /\ reaction = [w \in Watchers |-> [kind |-> "none", x |-> 0]]

\* no data object exists
NoHeap ==
  /\ heap = <<>>
  /\ opLog = [tick |-> 0, notified |-> <<>>]

\* the component constructors a placeholder can name
Ctors == {"A", "B"}
NoCtor == "none"

\* no component placeholder
NoVnode == [ctor |-> NoCtor, componentInstance |-> 0, keepAlive |-> FALSE]

\* initLifecycle: the flags of a fresh instance
NewVm(c) ==
  [ctor |-> c, isMounted |-> FALSE, isDestroyed |-> FALSE,
   isBeingDestroyed |-> FALSE, inactive |-> "null", directInactive |-> FALSE]

\* no component instance exists
NoLife ==
  /\ vm = [i \in Watchers |-> NewVm(NoCtor)]
  /\ hookLog = [i \in Watchers |-> <<>>]
  /\ updatedLog = <<>>
  /\ cache = [c \in Ctors |-> 0]
  /\ keys = <<>>
  /\ activatedChildren = <<>>
  /\ shown = NoVnode
  /\ view = NoCtor
  /\ wrap = FALSE
  /\ max = 0
  /\ lifeOps = 0

\* no computed property is followed
NoEvals ==
  /\ uses = [w \in Watchers |-> 0]
  /\ evalLog = [n |-> 0, who |-> 0, reads |-> {}, evals |-> [w \in Watchers |-> 0],
                returned |-> [w \in Watchers |-> 0]]

\* no vnode is being removed
NoRemoval ==
  /\ cbsRemove = 0
  /\ rmVnode = [hook |-> FALSE, inner |-> "none"]
  /\ rm = [created |-> FALSE, listeners |-> 0, held |-> {}, late |-> 0]
  /\ host = [attached |-> TRUE, detaches |-> 0]

\* no async component factory has failed, sameVnode is not being followed
NoSame ==
  /\ factoryError = {}
  /\ sameArgs = <<>>
  /\ sameLog = [done |-> FALSE, ab |-> FALSE, ba |-> FALSE]

\* no evaluation is in progress
NoTarget ==
  /\ target = 0
  /\ targetStack = <<>>
  /\ frames = <<>>
  /\ unwinding = FALSE
  /\ newDeps = [w \in Watchers |-> {}]
  /\ readLog = [n |-> 0, d |-> 0, subscribed |-> 0, nested |-> FALSE,
                after |-> FALSE]

\* nothing has been handed to nextTick
NoTick ==
  tick = [callbacks |-> <<>>, pending |-> FALSE, timers |-> 0, copies |-> <<>>,
          i |-> 0, running |-> FALSE, batch |-> 0, registered |-> <<>>,
          ran |-> <<>>, errors |-> 0]

\* no <keep-alive> has been created
NoKeepAlive ==
  ka = [cache |-> <<>>, keys |-> <<>>, max |-> 0, vnode |-> "none",
        made |-> 0, destroyed |-> {}, alive |-> FALSE, clock |-> 0,
        last |-> <<>>]

\* no instance is followed through $destroy
NoDying ==
  dying = [isBeingDestroyed |-> FALSE, isDestroyed |-> FALSE,
           keepAlive |-> FALSE, inactive |-> FALSE, watchers |-> <<>>,
           vmCount |-> 0, frames |-> <<>>, calls |-> 0,
           hooks |-> [beforeDestroy |-> 0, destroyed |-> 0],
           teardowns |-> <<>>]

\* the router is at its START route and nothing navigates
NoRouter == router = [current |-> 0, pending |-> 0, navs |-> <<>>, table |-> <<>>]

NoLate == NoTick /\ NoKeepAlive /\ NoDying /\ NoRouter

NoRest == NoRemoval /\ NoSame /\ NoTarget /\ NoLate

\* no assignment has been logged
NoObs ==
  /\ setterLog = [tick |-> 0, d |-> 0, v |-> "0", calls |-> <<>>]
  /\ NoNotify
  /\ NoHeap
  /\ NoLife
  /\ NoEvals
  /\ NoRest

\* no watcher has been constructed, nothing is scheduled
NoWatchers ==
  /\ uid = 0
  /\ user = [w \in Watchers |-> FALSE]
  /\ lazy = [w \in Watchers |-> FALSE]
  /\ deep = [w \in Watchers |-> FALSE]
  /\ path = [w \in Watchers |-> 0]
  /\ active = [w \in Watchers |-> FALSE]
  /\ dirty = [w \in Watchers |-> FALSE]
  /\ value = [w \in Watchers |-> Undef]
  /\ deps = [w \in Watchers |-> {}]
  /\ subs = [d \in Fields |-> <<>>]
  /\ val = [d \in Fields |-> "0"]
  /\ queue = <<>>
  /\ has = {}
  /\ circular = [w \in Watchers |-> 0]
  /\ waiting = FALSE
  /\ flushing = FALSE
  /\ index = 0
  /\ callbacks = <<>>
  /\ pending = FALSE
  /\ phase = "idle"
  /\ cbWrites = 0
  /\ budget = Unlimited
  /\ runLog = <<>>
  /\ outcome = "none"
  /\ warned = 0
  /\ dropped = {}
  /\ reported = {}
  /\ burst = <<>>

Init == NoWatchers /\ NoPatch /\ NoTree /\ NoObs

\* ------------------------------------------------- actions outside a flush
\* new Watcher(vm, expOrFn, cb, options): k is the kind of watcher, p the
\* watched path (0: a function), A and v what the first evaluation reads
\* and returns
NewWatcher(k, p, A, v) ==
  LET w == uid + 1
      g == get(subs, w, A, FALSE, {})
  IN /\ phase = "idle"
     /\ uid < MaxCreated
     /\ p > 0 <=> k = "user"
     /\ uid' = w
     /\ user' = [user EXCEPT ![w] = (k = "user")]
     /\ lazy' = [lazy EXCEPT ![w] = (k = "lazy")]
     /\ path' = [path EXCEPT ![w] = p]
     /\ active' = [active EXCEPT ![w] = TRUE]
     /\ dirty' = [dirty EXCEPT ![w] = (k = "lazy")]
     /\ IF k = "lazy"
        THEN /\ A = {} /\ v = Undef
             /\ UNCHANGED <<value, deps, subs>>
        ELSE /\ IF p > 0 THEN A = {p} /\ v = val[p] ELSE v = Undef
             /\ value' = [value EXCEPT ![w] = v]
             /\ deps' = [deps EXCEPT ![w] = g.deps]
             /\ subs' = g.subs
     /\ UNCHANGED <<deep, val, queue, has, circular, waiting, flushing, index,
                    callbacks, pending, phase, cbWrites, budget, patchVars, treeVars, obsVars, histVars>>

\* an assignment to a reactive field made by code running outside a flush
Write(d, v) ==
  /\ phase = "idle"
  /\ val' = [val EXCEPT ![d] = v]
  /\ SetSched(reactiveSetter(Sched, d, v))
  /\ UNCHANGED <<uid, user, lazy, deep, path, active, value, deps, subs, circular,
                 flushing, index, phase, cbWrites, budget, patchVars, treeVars, obsVars, histVars>>

\* watcher.teardown() called outside a flush (unwatch, $destroy)
Teardown(w) ==
  /\ phase = "idle"
  /\ w <= uid
  /\ subs' = teardown(subs, w)
  /\ active' = [active EXCEPT ![w] = FALSE]
  /\ UNCHANGED <<uid, user, lazy, deep, path, dirty, value, deps, val, schedVars,
                 phase, cbWrites, budget, patchVars, treeVars, obsVars, histVars>>

\* computedGetter read outside any evaluation (Dep.target is empty):
\* evaluate() when dirty
ReadComputed(w, A, td, B, r) ==
  LET g == get(subs, w, A, td, B)
  IN /\ phase = "idle"
     /\ w <= uid /\ lazy[w] /\ dirty[w]
     /\ ~td => B = {}
     /\ subs' = g.subs
     /\ deps' = [deps EXCEPT ![w] = g.deps]
     /\ active' = [active EXCEPT ![w] = @ /\ ~td]
     /\ IF r = Throw
        THEN UNCHANGED <<value, dirty>>
        ELSE /\ value' = [value EXCEPT ![w] = r]
             /\ dirty' = [dirty EXCEPT ![w] = FALSE]
     /\ UNCHANGED <<uid, user, lazy, deep, path, val, queue, has, circular, waiting,
                    flushing, index, callbacks, pending, phase, cbWrites, budget, patchVars, treeVars, obsVars, histVars>>

\* ------------------------------------------------------------ the flush
\* the entry the scan pointer is at, and the entries behind it
Current == queue[index + 1]
Unprocessed == {queue[i].id : i \in (index + 2)..Len(queue)}

resetSchedulerState ==
  /\ index' = 0
  /\ queue' = <<>>
  /\ has' = {}
  /\ circular' = [w \in Watchers |-> 0]
  /\ waiting' = FALSE
  /\ flushing' = FALSE

\* the deferred-callback primitive fires: flushCallbacks runs the copied
\* callbacks, here flushSchedulerQueue up to the head of its loop
flushCallbacks ==
  /\ phase = "idle"
  /\ pending
  /\ pending' = FALSE
  /\ callbacks' = <<>>
  /\ flushing' = TRUE
  /\ queue' = SortById(queue)
  /\ index' = 0
  /\ phase' = "loop"
  /\ outcome' = "running"
  /\ budget /= 0
  /\ budget' = IF budget = Unlimited THEN budget ELSE budget - 1
  /\ UNCHANGED <<patchVars, treeVars, obsVars>>
  /\ UNCHANGED <<watcherVars, subs, val, has, circular, waiting, cbWrites,
                 runLog, warned, dropped, reported, burst>>

\* an exception leaves flushSchedulerQueue: the wrapper nextTick put around
\* it catches and reports it; nothing of the scheduler state is reset
FlushThrows ==
  /\ phase' = "idle"
  /\ outcome' = "throw"
  /\ dropped' = Unprocessed
  /\ reported' = reported \cup {"nextTick"}
  /\ UNCHANGED <<queue, circular, waiting, flushing, index, callbacks, pending,
                 warned, cbWrites, budget, patchVars, treeVars, obsVars>>

\* mutant: run() without the test of the active flag
runs_Always(w) == TRUE

\* run(): the test that guards the evaluation
runs(w) == active[w]

\* mutant: run() calls the callback only for object values
callsCb_ObjectsOnly(w, v) == v = Obj

\* run(): the test that guards the callback
callsCb(w, v) == ~strictEq(v, value[w]) \/ v = Obj \/ deep[w]

\* one iteration of the loop of flushSchedulerQueue up to the call of the
\* callback: before(), has[id] = null, run() with its evaluation
FlushStep(A, td, B, r) ==
  LET w == Current.id
      g == get(subs, w, A, td, B)
      v == IF r = Throw THEN Undef ELSE r
      entry == [id |-> w, at |-> Current.at, active |-> active[w],
                evald |-> runs(w), got |-> IF runs(w) THEN v ELSE Undef,
                deep |-> deep[w], cb |-> FALSE,
                newValue |-> Undef, oldValue |-> Undef]
      \* this.cb.call(this.vm, value, oldValue)
      called == [entry EXCEPT !.cb = TRUE, !.newValue = v, !.oldValue = value[w]]
  IN /\ phase = "loop"
     /\ outcome = "running"
     /\ index < Len(queue)
     /\ has' = has \ {w}
     /\ IF ~runs(w)
        THEN /\ A = {} /\ ~td /\ B = {} /\ r = Undef
             /\ runLog' = Append(runLog, entry)
             /\ index' = index + 1
             /\ UNCHANGED <<subs, deps, active, value, phase, outcome, dropped,
                            reported, queue, circular, waiting, flushing,
                            callbacks, pending, warned, cbWrites, budget, patchVars, treeVars, obsVars>>
        ELSE /\ A \in GetterReads(w) /\ r \in GetterResults(w)
             /\ td => path[w] = 0
             /\ ~td => B = {}
             /\ subs' = g.subs
             /\ deps' = [deps EXCEPT ![w] = g.deps]
             /\ active' = [active EXCEPT ![w] = @ /\ ~td]
             /\ IF r = Throw /\ ~user[w]
                THEN /\ runLog' = Append(runLog, entry)
                     /\ FlushThrows
                     /\ UNCHANGED value
                ELSE /\ reported' = IF r = Throw THEN reported \cup {"getter"}
                                    ELSE reported
                     /\ runLog' = Append(runLog, IF callsCb(w, v) THEN called
                                                  ELSE entry)
                     /\ IF callsCb(w, v)
                        THEN /\ value' = [value EXCEPT ![w] = v]
                             /\ phase' = "cb"
                             /\ UNCHANGED index
                        ELSE /\ index' = index + 1
                             /\ UNCHANGED <<value, phase>>
                     /\ UNCHANGED <<queue, circular, waiting, flushing, callbacks,
                                    pending, outcome, warned, dropped, cbWrites, budget, patchVars, treeVars, obsVars>>
     /\ UNCHANGED <<uid, user, lazy, deep, path, dirty, val, burst>>

\* the callback of the running watcher assigns v to field d
CbWrite(d, v) ==
  /\ phase = "cb"
  /\ cbWrites < MaxFlushWrites
  /\ v /= val[d]
  /\ val' = [val EXCEPT ![d] = v]
  /\ cbWrites' = cbWrites + 1
  /\ UNCHANGED <<budget, patchVars, treeVars, obsVars>>
  /\ SetSched(reactiveSetter(Sched, d, v))
  /\ UNCHANGED <<uid, user, lazy, deep, path, active, value, deps, subs, circular,
                 flushing, index, phase, histVars>>

\* the callback of the running watcher tears watcher x down
CbTeardown(x) ==
  /\ phase = "cb"
  /\ x <= uid
  /\ subs' = teardown(subs, x)
  /\ active' = [active EXCEPT ![x] = FALSE]
  /\ UNCHANGED <<uid, user, lazy, deep, path, dirty, value, deps, val, schedVars,
                 phase, cbWrites, budget, patchVars, treeVars, obsVars, histVars>>

\* mutant: the runaway diagnostic is issued but the loop goes on
CbReturn_WarnAndContinue(th) ==
  LET w == Current.id
      c == circular[w] + 1
  IN /\ phase = "cb"
     /\ ~(th /\ ~user[w])
     /\ reported' = IF th THEN reported \cup {"callback"} ELSE reported
     /\ warned' = IF w \in has /\ c > MAX_UPDATE_COUNT THEN w ELSE warned
     /\ index' = index + 1
     /\ circular' = IF w \in has THEN [circular EXCEPT ![w] = c] ELSE circular
     /\ phase' = "loop"
     /\ UNCHANGED <<queue, has, waiting, flushing, runLog, callbacks, pending,
                    cbWrites, budget, patchVars, treeVars, obsVars, dropped, outcome, watcherVars, subs, val,
                    burst>>

\* mutant: run() without the try/catch around the callback of a user watcher
CbReturn_NoCatch(th) ==
  LET w == Current.id
      c == circular[w] + 1
  IN /\ phase = "cb"
     /\ IF th
        THEN /\ FlushThrows
             /\ UNCHANGED <<has, runLog>>
        ELSE /\ UNCHANGED reported
             /\ IF w \in has /\ c > MAX_UPDATE_COUNT
                THEN /\ warned' = w
                     /\ dropped' = Unprocessed
                     /\ outcome' = "break"
                     /\ UNCHANGED index
                ELSE /\ index' = index + 1
                     /\ UNCHANGED <<warned, dropped, outcome>>
             /\ circular' = IF w \in has THEN [circular EXCEPT ![w] = c]
                            ELSE circular
             /\ phase' = "loop"
             /\ UNCHANGED <<queue, has, waiting, flushing, runLog, callbacks,
                            pending, cbWrites, budget, patchVars, treeVars, obsVars>>
     /\ UNCHANGED <<watcherVars, subs, val, burst>>

\* the callback returns (th: by throwing); rest of the loop iteration:
\* the circular-update check with its break, then index++
CbReturn(th) ==
  LET w == Current.id
      c == circular[w] + 1
  IN /\ phase = "cb"
     /\ IF th /\ ~user[w]
        THEN /\ FlushThrows
             /\ UNCHANGED <<has, runLog>>
        ELSE /\ reported' = IF th THEN reported \cup {"callback"} ELSE reported
             /\ IF w \in has /\ c > MAX_UPDATE_COUNT
                THEN /\ warned' = w
                     /\ dropped' = Unprocessed
                     /\ outcome' = "break"
                     /\ UNCHANGED index
                ELSE /\ index' = index + 1
                     /\ UNCHANGED <<warned, dropped, outcome>>
             /\ circular' = IF w \in has THEN [circular EXCEPT ![w] = c]
                            ELSE circular
             /\ phase' = "loop"
             /\ UNCHANGED <<queue, has, waiting, flushing, runLog, callbacks,
                            pending, cbWrites, budget, patchVars, treeVars, obsVars>>
     /\ UNCHANGED <<watcherVars, subs, val, burst>>

\* the loop of flushSchedulerQueue is left, by its condition or by the
\* break: resetSchedulerState (the history of the flush is dropped with it)
FlushEnd ==
  /\ phase = "loop"
  /\ outcome = "break" \/ (outcome = "running" /\ index >= Len(queue))
  /\ resetSchedulerState
  /\ phase' = "idle"
  /\ outcome' = "none"
  /\ runLog' = <<>>
  /\ warned' = 0
  /\ dropped' = {}
  /\ reported' = {}
  /\ burst' = <<>>
  /\ cbWrites' = 0
  /\ UNCHANGED <<budget, patchVars, treeVars, obsVars>>
  /\ UNCHANGED <<watcherVars, subs, val, callbacks, pending>>

\* ------------------------------------------------------- specifications
\* The watchers a component tree has constructed: every watcher is a user
\* watcher on a field path or a render watcher; each evaluated once in its
\* constructor, in id order, which subscribed it to the fields it read.
Shapes ==
  [k : {"user"}, p : Fields, A : {{}}] \cup [k : {"render"}, p : {0}, A : {Fields}]

Populations == [Watchers -> Shapes]

Kinds == {"user", "render", "lazy"}

ReadsOf(sh) == IF sh.k = "user" THEN {sh.p} ELSE sh.A

RECURSIVE SubscribersOf(_, _, _)
SubscribersOf(pop, d, w) ==
  IF w > NumWatchers THEN <<>>
  ELSE (IF d \in ReadsOf(pop[w]) THEN <<w>> ELSE <<>>) \o SubscribersOf(pop, d, w + 1)

\* dp: the watchers constructed with the option deep; v0: the values the
\* fields were declared with
BuiltAs(pop, dp, v0) ==
  /\ uid = NumWatchers
  /\ user = [w \in Watchers |-> pop[w].k = "user"]
  /\ lazy = [w \in Watchers |-> FALSE]
  /\ deep = dp
  /\ path = [w \in Watchers |-> pop[w].p]
  /\ active = [w \in Watchers |-> TRUE]
  /\ dirty = [w \in Watchers |-> FALSE]
  /\ value = [w \in Watchers |-> IF pop[w].k = "user" THEN v0[pop[w].p] ELSE Undef]
  /\ deps = [w \in Watchers |-> ReadsOf(pop[w])]
  /\ subs = [d \in Fields |-> SubscribersOf(pop, d, 1)]
  /\ val = v0
  /\ queue = <<>>
  /\ has = {}
  /\ circular = [w \in Watchers |-> 0]
  /\ waiting = FALSE
  /\ flushing = FALSE
  /\ index = 0
  /\ callbacks = <<>>
  /\ pending = FALSE
  /\ phase = "idle"
  /\ cbWrites = 0
  /\ runLog = <<>>
  /\ outcome = "none"
  /\ warned = 0
  /\ dropped = {}
  /\ reported = {}
  /\ burst = <<>>

Built(pop) ==
  BuiltAs(pop, [w \in Watchers |-> FALSE], [d \in Fields |-> "0"])

InitBuilt == \E pop \in Populations : Built(pop) /\ budget = Unlimited /\ NoPatch /\ NoTree /\ NoObs

\* an iteration whose getter neither throws past the watcher nor tears its
\* watcher down
Step ==
  \E A \in SUBSET Fields, r \in Vals \cup {Undef} : FlushStep(A, FALSE, {}, r)

\* Spec: a built population under writes, teardowns and flushes whose
\* callbacks write, tear down and throw
Next ==
  \/ \E d \in Fields, v \in Vals : Write(d, v)
  \/ \E w \in Watchers : Teardown(w)
  \/ flushCallbacks
  \/ Step
  \/ \E d \in Fields, v \in Vals : CbWrite(d, v)
  \/ \E x \in Watchers : CbTeardown(x)
  \/ \E th \in BOOLEAN : CbReturn(th)
  \/ FlushEnd

Spec == InitBuilt /\ [][Next]_vars

TypeOK ==
  /\ uid \in 0..NumWatchers
  /\ phase \in {"idle", "loop", "cb"}
  /\ \A d \in Fields : Range(subs[d]) \subseteq 1..uid
  /\ has \subseteq 1..uid
  /\ index \in 0..Len(queue)

\* SpecRunaway: the callback of every user watcher on field 1 rewrites that
\* field, unconditionally, with a value it does not hold; no other callback
\* writes, and every evaluation function reads the same fields on every run
Rewrites(w) == user[w] /\ path[w] = 1

\* an iteration whose evaluation function reads the fields it read before
StepSameReads ==
  /\ phase = "loop"
  /\ index < Len(queue)
  /\ \E r \in Vals \cup {Undef} : FlushStep(deps[Current.id], FALSE, {}, r)

CbRewrite ==
  LET w == Current.id
      v == CHOOSE x \in Vals : x /= val[1]
  IN /\ phase = "cb"
     /\ Rewrites(w)
     /\ w \notin has
     /\ val' = [val EXCEPT ![1] = v]
     /\ SetSched(reactiveSetter(Sched, 1, v))
     /\ UNCHANGED <<uid, user, lazy, deep, path, active, value, deps, subs, circular,
                    flushing, index, phase, cbWrites, budget, patchVars, treeVars, obsVars, histVars>>

CbDone ==
  /\ phase = "cb"
  /\ Rewrites(Current.id) => Current.id \in has
  /\ CbReturn(FALSE)

InitRunaway ==
  \E pop \in Populations : (\E w \in Watchers : pop[w].k = "user" /\ pop[w].p = 1)
    /\ Built(pop) /\ budget = MaxRunawayFlushes /\ NoPatch /\ NoTree /\ NoObs

NextRunaway ==
  \/ \E d \in Fields, v \in Vals : Write(d, v)
  \/ flushCallbacks
  \/ StepSameReads
  \/ CbRewrite
  \/ CbDone
  \/ FlushEnd

SpecRunaway == InitRunaway /\ [][NextRunaway]_vars

\* flushSchedulerQueue runs to completion on the single thread: a step of
\* the flush that can be taken is taken
FlushProgress == StepSameReads \/ CbRewrite \/ CbDone \/ FlushEnd

SpecRunawayLive == SpecRunaway /\ WF_vars(FlushProgress)

\* SpecThrow: the evaluation function of a render watcher may throw; no
\* callback writes and nothing is torn down
StepOrThrow ==
  \E A \in SUBSET Fields, r \in Vals \cup {Undef, Throw} : FlushStep(A, FALSE, {}, r)

NextThrow ==
  \/ \E d \in Fields, v \in Vals : Write(d, v)
  \/ flushCallbacks
  \/ StepOrThrow
  \/ \E th \in BOOLEAN : CbReturn(th)
  \/ FlushEnd

SpecThrow == InitBuilt /\ [][NextThrow]_vars

\* SpecBurst: the assignments made between two flushes are logged, with the
\* value the field held before each; callbacks neither write nor tear
\* down, nothing is torn down between the flushes
BurstWrite(d, v) ==
  /\ phase = "idle"
  /\ Len(burst) < MaxBurst
  /\ burst' = Append(burst, [d |-> d, v |-> v, old |-> val[d]])
  /\ val' = [val EXCEPT ![d] = v]
  /\ SetSched(reactiveSetter(Sched, d, v))
  /\ UNCHANGED <<uid, user, lazy, deep, path, active, value, deps, subs, circular,
                 flushing, index, phase, cbWrites, budget, patchVars, treeVars, obsVars,
                 runLog, outcome, warned, dropped, reported>>

NextBurst ==
  \/ \E d \in Fields, v \in Vals : BurstWrite(d, v)
  \/ flushCallbacks
  \/ Step
  \/ \E th \in BOOLEAN : CbReturn(th)
  \/ FlushEnd

SpecBurst == InitBuilt /\ [][NextBurst]_vars

\* SpecSetter: assignments of any value, NaN among them, each logged with
\* the update() calls it made
SetterWrite(d, v) ==
  LET R == reactiveSetter(Sched, d, v)
  IN /\ phase = "idle"
     /\ val' = [val EXCEPT ![d] = IF unchanged(v, val[d]) THEN @ ELSE v]
     /\ SetSched(R)
     /\ setterLog' = [tick |-> 1 - setterLog.tick, d |-> d, v |-> v, calls |-> R.calls]
     /\ UNCHANGED <<uid, user, lazy, deep, path, active, value, deps, subs, circular,
                    flushing, index, phase, cbWrites, budget, patchVars, treeVars,
                    histVars, notifyVars, heapVars, restVars, lifeVars, evalVars>>

StepAnyValue ==
  \E A \in SUBSET Fields, r \in Vals \cup {NaN, Undef} : FlushStep(A, FALSE, {}, r)

NextSetter ==
  \/ \E d \in Fields, v \in Vals \cup {NaN} : SetterWrite(d, v)
  \/ flushCallbacks
  \/ StepAnyValue
  \/ CbReturn(FALSE)
  \/ FlushEnd

InitSetter ==
  \E pop \in Populations :
    Built(pop) /\ budget = MaxSetterFlushes /\ NoPatch /\ NoTree /\ NoObs

SpecSetter == InitSetter /\ [][NextSetter]_vars

\* SpecRun: user watchers, some of them deep, and render watchers; the
\* watched fields hold and are assigned primitives, NaN and objects
MaxRunFlushes == 1
RunVals == Vals \cup {NaN, Obj}

RunPopulations ==
  {pop \in Populations :
     pop[1].k = "user" /\ pop[2].k = "user" /\ pop[3].k = "render"}

StepRun ==
  \E A \in SUBSET Fields, r \in RunVals \cup {Undef, Throw} :
    FlushStep(A, FALSE, {}, r)

NextRun ==
  \/ \E d \in Fields, v \in RunVals : Write(d, v)
  \/ flushCallbacks
  \/ StepRun
  \/ CbReturn(FALSE)
  \/ FlushEnd

InitRun ==
  \E pop \in RunPopulations, dp \in [Watchers -> BOOLEAN],
     v0 \in [Fields -> RunVals] :
    /\ \A w \in Watchers : dp[w] => pop[w].k = "user"
    /\ BuiltAs(pop, dp, v0)
    /\ budget = MaxRunFlushes /\ NoPatch /\ NoTree /\ NoObs

SpecRun == InitRun /\ [][NextRun]_vars

\* SpecDeps: watchers are constructed one by one, computed (lazy) watchers
\* among them; evaluation functions read other fields from run to run, and
\* those of render and computed watchers may tear their own watcher down
StepOrSelfTeardown ==
  \E A, B \in SUBSET Fields, td \in BOOLEAN, r \in Vals \cup {Undef} :
    FlushStep(A, td, B, r)

NextDeps ==
  \/ \E k \in Kinds, p \in 0..NumFields, A \in SUBSET Fields, v \in Vals \cup {Undef} :
       NewWatcher(k, p, A, v)
  \/ \E d \in Fields, v \in Vals : Write(d, v)
  \/ \E w \in Watchers : Teardown(w)
  \/ \E w \in Watchers, A, B \in SUBSET Fields, td \in BOOLEAN, r \in {Obj, Throw} :
       ReadComputed(w, A, td, B, r)
  \/ flushCallbacks
  \/ StepOrSelfTeardown
  \/ CbReturn(FALSE)
  \/ FlushEnd

SpecDeps == Init /\ [][NextDeps]_vars

\* ------------------------------------------------------- Dep.notify
\* One Dep and its subscribers.  update() of a subscriber may run user code
\* at once (a sync watcher runs its evaluation function and its callback):
\* the evaluation may stop reading the field (cleanupDeps removes the
\* watcher from subs), the callback may tear another watcher down or
\* construct a watcher that reads the field.
Reactions ==
  {[kind |-> "none", x |-> 0], [kind |-> "add", x |-> 0]}
    \cup [kind : {"remove"}, x : Watchers]

RECURSIVE Distinct(_)
Distinct(sq) ==
  IF sq = <<>> THEN TRUE
  ELSE /\ sq[Len(sq)] \notin Range(SubSeq(sq, 1, Len(sq) - 1))
       /\ Distinct(SubSeq(sq, 1, Len(sq) - 1))

SubscriberLists ==
  {sq \in UNION {[1..n -> Watchers] : n \in 0..NumWatchers} : Distinct(sq)}

\* the id of the next watcher constructed
NextId(sb) ==
  LET m == CHOOSE k \in Range(sb) \cup {NumWatchers} :
             \A j \in Range(sb) \cup {NumWatchers} : j <= k
  IN m + 1

\* what update() of watcher w does to this.subs
reactTo(sb, w) ==
  LET r == IF w \in Watchers THEN reaction[w] ELSE [kind |-> "none", x |-> 0]
  IN IF r.kind = "remove" THEN remove(sb, r.x)
     ELSE IF r.kind = "add" THEN Append(sb, NextId(sb))
     ELSE sb

\* mutant: notify() iterates over this.subs itself
iterated_Live(D) == D.subs

\* notify(): the array the loop goes over, const subs = this.subs.slice()
iterated(D) == D.snapshot

NotifyStart ==
  /\ dep.at = "idle"
  /\ dep' = [dep EXCEPT !.before = dep.subs, !.snapshot = dep.subs, !.at = "loop"]
  /\ UNCHANGED <<watcherVars, subs, val, schedVars, phase, cbWrites, budget,
                 histVars, patchVars, treeVars, setterLog, reaction, heapVars,
                 lifeVars, evalVars, restVars>>

\* one iteration of the loop: subs[i].update()
NotifyStep ==
  /\ dep.at = "loop"
  /\ IF dep.i < Len(iterated(dep))
     THEN LET w == iterated(dep)[dep.i + 1]
          IN dep' = [dep EXCEPT !.calls = Append(@, w),
                                !.subs = reactTo(@, w),
                                !.i = @ + 1]
     ELSE dep' = [dep EXCEPT !.at = "done"]
  /\ UNCHANGED <<watcherVars, subs, val, schedVars, phase, cbWrites, budget,
                 histVars, patchVars, treeVars, setterLog, reaction, heapVars,
                 lifeVars, evalVars, restVars>>

InitNotify ==
  /\ NoWatchers /\ NoPatch /\ NoTree
  /\ setterLog = [tick |-> 0, d |-> 0, v |-> "0", calls |-> <<>>]
  /\ NoHeap
  /\ NoLife
  /\ NoEvals
  /\ NoRest
  /\ \E sb \in SubscriberLists : dep = IdleDep(sb)
  /\ reaction \in [Watchers -> Reactions]

NextNotify == NotifyStart \/ NotifyStep

SpecNotify == InitNotify /\ [][NextNotify]_vars

\* ------------------------------------------------- observer: the data heap
\* Plain objects and arrays, numbered; a value is a primitive (Prim) or the
\* number of an object.  Object 1 is the root data of a component instance
\* (vmCount > 0).  A Dep is named by the object it belongs to and the key of
\* the field, "__ob__" for the Dep of the object's Observer.
Prim == 0
Objs == 1..MaxObjs
HeapVals == {Prim} \cup (Objs \ {1})
HKeys == {"k", "n"}

\* the Observer guards that depend on the value only; observation is
\* enabled and rendering is not on the server
shouldObserve == TRUE

observable(h, v) == shouldObserve /\ h[v].ext

RECURSIVE observe(_, _)
RECURSIVE observeArray(_, _, _)
RECURSIVE walk(_, _, _)

\* new Observer(value): __ob__, then observeArray or walk
Observer(h, o) ==
  LET h1 == [h EXCEPT ![o].ob = TRUE]
  IN IF h1[o].kind = "arr" THEN observeArray(h1, h1[o].e, 1)
     ELSE walk(h1, o, DOMAIN h1[o].f)

observe(h, v) ==
  IF v = Prim THEN h
  ELSE IF h[v].ob THEN h
  ELSE IF observable(h, v) THEN Observer(h, v)
  ELSE h

observeArray(h, items, i) ==
  IF i > Len(items) THEN h
  ELSE observeArray(observe(h, items[i]), items, i + 1)

\* mutant: every field is defined shallow
defineReactive_Shallow(h, o, key, v) ==
  [h EXCEPT ![o].f = (key :> v) @@ @, ![o].rk = @ \cup {key}]

\* defineReactive(obj, key, val) on heap h: getter and setter, childOb
defineReactive(h, o, key, v) ==
  observe([h EXCEPT ![o].f = (key :> v) @@ @, ![o].rk = @ \cup {key}], v)

walk(h, o, ks) ==
  IF ks = {} THEN h
  ELSE LET key == CHOOSE x \in ks : TRUE
       IN walk(defineReactive(h, o, key, h[o].f[key]), o, ks \ {key})

obDep(o) == <<o, "__ob__">>

\* the native methods of Array.prototype; args is <<items>> for push and
\* unshift, <<start, deleteCount, items>> for splice
RECURSIVE Reverse(_)
Reverse(e) == IF e = <<>> THEN <<>> ELSE Append(Reverse(Tail(e)), Head(e))

RECURSIVE SortInsert(_, _)
SortInsert(e, x) ==
  IF e = <<>> THEN <<x>>
  ELSE IF e[Len(e)] <= x THEN Append(e, x)
       ELSE Append(SortInsert(SubSeq(e, 1, Len(e) - 1), x), e[Len(e)])

RECURSIVE SortElems(_)
SortElems(e) ==
  IF e = <<>> THEN <<>>
  ELSE SortInsert(SortElems(SubSeq(e, 1, Len(e) - 1)), e[Len(e)])

original(method, e, args) ==
  CASE method = "push" -> e \o args[1]
    [] method = "pop" -> SubSeq(e, 1, Len(e) - 1)
    [] method = "shift" -> SubSeq(e, 2, Len(e))
    [] method = "unshift" -> args[1] \o e
    [] method = "splice" ->
         SubSeq(e, 1, args[1]) \o args[3] \o SubSeq(e, args[1] + args[2] + 1, Len(e))
    [] method = "sort" -> SortElems(e)
    [] method = "reverse" -> Reverse(e)

\* mutant: inserted is taken for push only
inserted_PushOnly(method, args) ==
  IF method = "push" THEN args[1] ELSE <<>>

\* mutator: the switch that yields inserted
inserted(method, args) ==
  CASE method \in {"push", "unshift"} -> args[1]
    [] method = "splice" -> args[3]
    [] OTHER -> <<>>

\* the result of an operation on the heap: the heap and the Deps notified
Res(h, n) == [heap |-> h, notified |-> n]

\* mutant: only the methods that insert notify
mutator_NotifyOnInsert(h, o, method, args) ==
  LET h1 == [h EXCEPT ![o].e = original(method, @, args)]
  IN Res(observeArray(h1, inserted(method, args), 1),
         IF inserted(method, args) = <<>> THEN <<>> ELSE <<obDep(o)>>)

\* mutator(...args) of an observed array
mutator(h, o, method, args) ==
  LET h1 == [h EXCEPT ![o].e = original(method, @, args)]
  IN Res(observeArray(h1, inserted(method, args), 1), <<obDep(o)>>)

\* an assignment obj[key] = v: through reactiveSetter when the key is
\* reactive, a bare write otherwise
assign(h, o, key, v) ==
  IF key \in h[o].rk
  THEN IF v = h[o].f[key] THEN Res(h, <<>>)
       ELSE Res(observe([h EXCEPT ![o].f[key] = v], v), <<<<o, key>>>>)
  ELSE Res([h EXCEPT ![o].f = (key :> v) @@ @], <<>>)

\* mutant: set() that adds the key without notifying
setKey_Silent(h, o, key, v) ==
  IF key \in DOMAIN h[o].f THEN assign(h, o, key, v)
  ELSE IF h[o].root THEN Res(h, <<>>)
  ELSE IF ~h[o].ob THEN Res([h EXCEPT ![o].f = (key :> v) @@ @], <<>>)
  ELSE Res(defineReactive(h, o, key, v), <<>>)

\* set(target, key, val) for an object target
setKey(h, o, key, v) ==
  IF key \in DOMAIN h[o].f THEN assign(h, o, key, v)
  ELSE IF h[o].root THEN Res(h, <<>>)
  ELSE IF ~h[o].ob THEN Res([h EXCEPT ![o].f = (key :> v) @@ @], <<>>)
  ELSE Res(defineReactive(h, o, key, v), <<obDep(o)>>)

\* set(target, key, val) for an array target and a valid index:
\* target.splice(key, 1, val), intercepted when the array is observed
setIndex(h, o, i, v) ==
  IF h[o].ob THEN mutator(h, o, "splice", <<i, 1, <<v>>>>)
  ELSE Res([h EXCEPT ![o].e = original("splice", @, <<i, 1, <<v>>>>)], <<>>)

\* ---- the heap under assignments, set() and array methods
Cell(kd, x, r, fs, es) ==
  [kind |-> kd, ext |-> x, ob |-> FALSE, root |-> r, f |-> fs, rk |-> {}, e |-> es]

\* the objects before the root data is observed; one that is not
\* extensible (frozen) is empty
Cells ==
  {Cell("obj", TRUE, FALSE, fs, <<>>) : fs \in {<<>>} \cup {("k" :> v) : v \in HeapVals}}
  \cup {Cell("arr", TRUE, FALSE, <<>>, es) : es \in {<<>>} \cup {<<v>> : v \in HeapVals}}
  \cup {Cell("obj", FALSE, FALSE, <<>>, <<>>), Cell("arr", FALSE, FALSE, <<>>, <<>>)}

\* object 1 is the root data, the objects with an even number are arrays
Heaps ==
  {h \in [Objs -> Cells \cup {Cell("obj", TRUE, TRUE, ("k" :> v), <<>>) : v \in HeapVals}] :
     /\ h[1].root
     /\ \A o \in Objs \ {1} : ~h[o].root /\ (h[o].kind = "arr" <=> o % 2 = 0)}

Logged(R) ==
  /\ heap' = R.heap
  /\ opLog' = [tick |-> 1 - opLog.tick, notified |-> R.notified]
  /\ UNCHANGED <<watcherVars, subs, val, schedVars, phase, cbWrites, budget,
                 histVars, patchVars, treeVars, setterLog, notifyVars,
                 lifeVars, evalVars, restVars>>

\* obj[key] = v on a tracked field
HeapAssign(o, key, v) ==
  /\ heap[o].kind = "obj"
  /\ key \in heap[o].rk
  /\ Logged(assign(heap, o, key, v))

\* Vue.set(target, key, v) on an observed object
HeapSet(o, key, v) ==
  /\ heap[o].kind = "obj"
  /\ heap[o].ob
  /\ Logged(setKey(heap, o, key, v))

\* Vue.set(array, i, v) on an observed array
HeapSetIndex(o, i, v) ==
  /\ heap[o].kind = "arr"
  /\ heap[o].ob
  /\ i <= Len(heap[o].e)
  /\ i < MaxElems
  /\ Logged(setIndex(heap, o, i, v))

ArrayArgs(method, e) ==
  CASE method \in {"push", "unshift"} ->
         {<<items>> : items \in UNION {[1..n -> HeapVals] : n \in 0..MaxItems}}
    [] method = "splice" ->
         {<<s, dc, items>> :
            s \in 0..Len(e), dc \in 0..1,
            items \in UNION {[1..n -> HeapVals] : n \in 0..MaxItems}}
    [] OTHER -> {<<>>}

\* a call of an intercepted method on an observed array
ArrayCall(o, method, args) ==
  /\ heap[o].kind = "arr" /\ heap[o].ob
  /\ args \in ArrayArgs(method, heap[o].e)
  /\ Len(original(method, heap[o].e, args)) <= MaxElems
  /\ Logged(mutator(heap, o, method, args))

methodsToPatch == {"push", "pop", "shift", "unshift", "splice", "sort", "reverse"}

InitHeap ==
  /\ NoWatchers /\ NoPatch /\ NoTree
  /\ setterLog = [tick |-> 0, d |-> 0, v |-> "0", calls |-> <<>>]
  /\ NoNotify
  /\ NoLife
  /\ NoEvals
  /\ NoRest
  /\ \E h \in Heaps : heap = observe(h, 1)
  /\ opLog = [tick |-> 0, notified |-> <<>>]

NextHeap ==
  \/ \E o \in Objs, key \in HKeys, v \in HeapVals : HeapAssign(o, key, v)
  \/ \E o \in Objs, key \in HKeys, v \in HeapVals : HeapSet(o, key, v)
  \/ \E o \in Objs, i \in 0..MaxElems, v \in HeapVals : HeapSetIndex(o, i, v)
  \/ \E o \in Objs, method \in methodsToPatch :
       \E args \in ArrayArgs(method, heap[o].e) : ArrayCall(o, method, args)

SpecHeap == InitHeap /\ [][NextHeap]_vars

\* ------------------------------------------------ virtual DOM: child lists
\* Children are keyed element vnodes without data; a vnode is its key, its
\* tag and the host node it is rendered by (Null: none yet).  Host nodes are
\* numbers: old child i is rendered by node i, created nodes follow.
Null == 0
Keys == {"a", "b", "c", "x"}
\* a vnode: data is "undefined", or names the attrs.type of defined data
\* ("notype": attrs without type); asyncFactory 0 is undefined
FullVNode(k, t, c, d, f, p) ==
  [key |-> k, tag |-> t, elm |-> Null, isComment |-> c, data |-> d,
   asyncFactory |-> f, isAsyncPlaceholder |-> p]
VNode(k, t) == FullVNode(k, t, FALSE, "undefined", 0, FALSE)
ChildShapes == {VNode(k, "li") : k \in Keys} \cup {VNode("a", "p")}
ChildLists == UNION {[1..n -> ChildShapes] : n \in 0..MaxChildren}

\* oldCh[idxInOld] = undefined
Hole == FullVNode("undefined", "undefined", FALSE, "undefined", 0, FALSE)
isUndef(v) == v = Hole

\* mutant: the test compares key and tag only
sameVnode_KeyAndTag(a, b) == a.key = b.key /\ a.tag = b.tag

\* mutant: no two vnodes are the same
sameVnode_Never(a, b) == FALSE

\* isTextInputType of web/util/element
TextInputTypes == {"text", "password"}
isTextInputType(t) == t \in TextInputTypes

\* isDef(i = a.data) && isDef(i = i.attrs) && i.type
inputType(a) ==
  IF a.data = "undefined" THEN "false"
  ELSE IF a.data = "notype" THEN "undefined"
  ELSE a.data

sameInputType(a, b) ==
  IF a.tag /= "input" THEN TRUE
  ELSE inputType(a) = inputType(b)
       \/ (isTextInputType(inputType(a)) /\ isTextInputType(inputType(b)))

sameVnode(a, b) ==
  a.key = b.key
  /\ \/ /\ a.tag = b.tag
        /\ a.isComment = b.isComment
        /\ (a.data /= "undefined") = (b.data /= "undefined")
        /\ sameInputType(a, b)
     \/ /\ a.isAsyncPlaceholder
        /\ a.asyncFactory = b.asyncFactory
        /\ b.asyncFactory \notin factoryError

\* mutant: the key map finds nothing
createKeyToOldIdx_Empty(children, beginIdx, endIdx) == [k \in {} |-> 0]

\* mutant: the first index with a key stays in the map
createKeyToOldIdx_First(children, beginIdx, endIdx) ==
  [k \in {children[i + 1].key : i \in beginIdx..endIdx} |->
     CHOOSE i \in beginIdx..endIdx :
       /\ children[i + 1].key = k
       /\ \A j \in beginIdx..endIdx : children[j + 1].key = k => i <= j]

\* map[key] = i for i = beginIdx .. endIdx: a later index overwrites
createKeyToOldIdx(children, beginIdx, endIdx) ==
  [k \in {children[i + 1].key : i \in beginIdx..endIdx} |->
     CHOOSE i \in beginIdx..endIdx :
       /\ children[i + 1].key = k
       /\ \A j \in beginIdx..endIdx : children[j + 1].key = k => j <= i]

\* The state of one updateChildren call as a record; the host operations
\* act on its fields children and ops.
Patch == [oldCh |-> oldCh, newCh |-> newCh,
          oldStartIdx |-> oldStartIdx, oldEndIdx |-> oldEndIdx,
          newStartIdx |-> newStartIdx, newEndIdx |-> newEndIdx,
          oldKeyToIdx |-> oldKeyToIdx, children |-> parentElm,
          ops |-> hostOps, status |-> patching]

SetPatch(P) ==
  /\ oldCh' = P.oldCh
  /\ newCh' = P.newCh
  /\ oldStartIdx' = P.oldStartIdx
  /\ oldEndIdx' = P.oldEndIdx
  /\ newStartIdx' = P.newStartIdx
  /\ newEndIdx' = P.newEndIdx
  /\ oldKeyToIdx' = P.oldKeyToIdx
  /\ parentElm' = P.children
  /\ hostOps' = P.ops
  /\ patching' = P.status

HostOp(o, e, r) == [op |-> o, elm |-> e, ref |-> r]

\* host API: Node.appendChild (a node that is already a child is moved)
appendChild(P, elm) ==
  [P EXCEPT !.children = Append(remove(@, elm), elm),
            !.ops = Append(@, HostOp("appendChild", elm, Null))]

\* host API: Node.insertBefore(elm, ref); a null ref appends, a node that is
\* already a child is moved, a ref that is no child raises NotFoundError
insertBefore(P, elm, ref) ==
  LET c == remove(P.children, elm)
      i == IndexOf(c, ref, 1)
      P1 == [P EXCEPT !.ops = Append(@, HostOp("insertBefore", elm, ref))]
  IN IF ref = Null THEN [P1 EXCEPT !.children = Append(c, elm)]
     ELSE IF ref = elm THEN P1
     ELSE IF i = 0 THEN [P EXCEPT !.status = "throw"]
     ELSE [P1 EXCEPT !.children = InsertAt(c, i - 1, elm)]

\* host API: Node.nextSibling
nextSibling(P, elm) ==
  LET i == IndexOf(P.children, elm, 1)
  IN IF i = 0 \/ i = Len(P.children) THEN Null ELSE P.children[i + 1]

removeNode(P, el) ==
  IF IndexOf(P.children, el, 1) = 0 THEN P
  ELSE [P EXCEPT !.children = remove(@, el),
                 !.ops = Append(@, HostOp("removeChild", el, Null))]

insert(P, elm, ref) ==
  IF ref /= Null
  THEN IF IndexOf(P.children, ref, 1) /= 0 THEN insertBefore(P, elm, ref) ELSE P
  ELSE appendChild(P, elm)

Created(ops) == {i \in 1..Len(ops) : ops[i].op = "createElement"}

\* createElm(newCh[idx], .., parentElm, refElm, .., newCh, idx)
createElm(P, refElm, idx) ==
  LET e == Len(prevCh) + Cardinality(Created(P.ops)) + 1
      P1 == [P EXCEPT !.newCh[idx + 1].elm = e,
                      !.ops = Append(@, HostOp("createElement", e, Null))]
  IN insert(P1, e, refElm)

\* mutant: the created nodes are appended, whatever the reference node
RECURSIVE addVnodes_Append(_, _, _, _)
addVnodes_Append(P, refElm, startIdx, endIdx) ==
  IF startIdx > endIdx THEN P
  ELSE addVnodes_Append(createElm(P, Null, startIdx), refElm, startIdx + 1, endIdx)

RECURSIVE addVnodes(_, _, _, _)
addVnodes(P, refElm, startIdx, endIdx) ==
  IF startIdx > endIdx THEN P
  ELSE addVnodes(createElm(P, refElm, startIdx), refElm, startIdx + 1, endIdx)

RECURSIVE removeVnodes(_, _, _)
removeVnodes(P, startIdx, endIdx) ==
  IF startIdx > endIdx THEN P
  ELSE LET ch == P.oldCh[startIdx + 1]
       IN removeVnodes(IF isUndef(ch) THEN P ELSE removeNode(P, ch.elm),
                       startIdx + 1, endIdx)

\* mutant: reused nodes are moved in removeOnly mode as well
moving_Always == TRUE

\* updateChildren: canMove && nodeOps.insertBefore(...)
moving == canMove

\* patchVnode(oldVnode, newCh[idx], ..): vnode.elm = oldVnode.elm
patchVnode(P, oldVnode, idx) == [P EXCEPT !.newCh[idx + 1].elm = oldVnode.elm]

\* the last branch of the while body: look the new start vnode up by key
findAndMove(P) ==
  LET oldStartVnode == P.oldCh[P.oldStartIdx + 1]
      newStartVnode == P.newCh[P.newStartIdx + 1]
      P0 == IF DOMAIN P.oldKeyToIdx = {}
            THEN [P EXCEPT !.oldKeyToIdx =
                    createKeyToOldIdx(P.oldCh, P.oldStartIdx, P.oldEndIdx)]
            ELSE P
      idxInOld == P0.oldKeyToIdx[newStartVnode.key]
      vnodeToMove == P0.oldCh[idxInOld + 1]
      P1 == IF newStartVnode.key \notin DOMAIN P0.oldKeyToIdx
            THEN createElm(P0, oldStartVnode.elm, P.newStartIdx)
            ELSE IF isUndef(vnodeToMove)
            THEN [P0 EXCEPT !.status = "throw"]  \* TypeError in sameVnode
            ELSE IF sameVnode(vnodeToMove, newStartVnode)
            THEN LET P2 == [patchVnode(P0, vnodeToMove, P.newStartIdx)
                              EXCEPT !.oldCh[idxInOld + 1] = Hole]
                 IN IF moving
                    THEN insertBefore(P2, vnodeToMove.elm, oldStartVnode.elm)
                    ELSE P2
            ELSE createElm(P0, oldStartVnode.elm, P.newStartIdx)
  IN IF P1.status = "throw" THEN P1 ELSE [P1 EXCEPT !.newStartIdx = @ + 1]

\* one pass through the body of the while loop
whileBody(P) ==
  LET oldStartVnode == P.oldCh[P.oldStartIdx + 1]
      oldEndVnode == P.oldCh[P.oldEndIdx + 1]
      newStartVnode == P.newCh[P.newStartIdx + 1]
      newEndVnode == P.newCh[P.newEndIdx + 1]
  IN IF isUndef(oldStartVnode) THEN [P EXCEPT !.oldStartIdx = @ + 1]
     ELSE IF isUndef(oldEndVnode) THEN [P EXCEPT !.oldEndIdx = @ - 1]
     ELSE IF sameVnode(oldStartVnode, newStartVnode)
     THEN [patchVnode(P, oldStartVnode, P.newStartIdx)
             EXCEPT !.oldStartIdx = @ + 1, !.newStartIdx = @ + 1]
     ELSE IF sameVnode(oldEndVnode, newEndVnode)
     THEN [patchVnode(P, oldEndVnode, P.newEndIdx)
             EXCEPT !.oldEndIdx = @ - 1, !.newEndIdx = @ - 1]
     ELSE IF sameVnode(oldStartVnode, newEndVnode)
     THEN LET P1 == patchVnode(P, oldStartVnode, P.newEndIdx)
              P2 == IF moving
                    THEN insertBefore(P1, oldStartVnode.elm,
                                      nextSibling(P1, oldEndVnode.elm))
                    ELSE P1
          IN [P2 EXCEPT !.oldStartIdx = @ + 1, !.newEndIdx = @ - 1]
     ELSE IF sameVnode(oldEndVnode, newStartVnode)
     THEN LET P1 == patchVnode(P, oldEndVnode, P.newStartIdx)
              P2 == IF moving
                    THEN insertBefore(P1, oldEndVnode.elm, oldStartVnode.elm)
                    ELSE P1
          IN [P2 EXCEPT !.oldEndIdx = @ - 1, !.newStartIdx = @ + 1]
     ELSE findAndMove(P)

\* what follows the while loop
afterLoop(P) ==
  IF P.oldStartIdx > P.oldEndIdx
  THEN LET refElm == IF P.newEndIdx + 1 >= Len(P.newCh) THEN Null
                     ELSE P.newCh[P.newEndIdx + 2].elm
       IN addVnodes(P, refElm, P.newStartIdx, P.newEndIdx)
  ELSE IF P.newStartIdx > P.newEndIdx
  THEN removeVnodes(P, P.oldStartIdx, P.oldEndIdx)
  ELSE P

\* mutant: the loop stops one entry early on both sides
InLoop_Strict == oldStartIdx < oldEndIdx /\ newStartIdx < newEndIdx

InLoop == oldStartIdx <= oldEndIdx /\ newStartIdx <= newEndIdx

updateChildrenStep ==
  /\ patching = "loop"
  /\ InLoop
  /\ SetPatch(whileBody(Patch))
  /\ UNCHANGED <<watcherVars, subs, val, schedVars, phase, cbWrites, budget,
                 histVars, canMove, prevCh, treeVars, obsVars>>

updateChildrenEnd ==
  /\ patching = "loop"
  /\ ~InLoop
  /\ SetPatch([afterLoop(Patch) EXCEPT !.status = "done"])
  /\ UNCHANGED <<watcherVars, subs, val, schedVars, phase, cbWrites, budget,
                 histVars, canMove, prevCh, treeVars, obsVars>>

\* SpecPatch: updateChildren is called on a rendered old child list and a
\* new child list, with and without removeOnly
Rendered(ch) == [i \in 1..Len(ch) |-> [ch[i] EXCEPT !.elm = i]]

InitPatch ==
  /\ NoWatchers
  /\ NoTree
  /\ NoObs
  /\ \E old \in ChildLists, new \in ChildLists, removeOnly \in BOOLEAN :
       /\ prevCh = Rendered(old)
       /\ oldCh = Rendered(old)
       /\ newCh = new
       /\ parentElm = [i \in 1..Len(old) |-> i]
       /\ oldStartIdx = 0
       /\ newStartIdx = 0
       /\ oldEndIdx = Len(old) - 1
       /\ newEndIdx = Len(new) - 1
       /\ oldKeyToIdx = <<>>
       /\ canMove = ~removeOnly
       /\ patching = "loop"
       /\ hostOps = <<>>

NextPatch ==
  \/ updateChildrenStep
  \/ updateChildrenEnd

SpecPatch == InitPatch /\ [][NextPatch]_vars

PatchTypeOK ==
  /\ patching \in {"idle", "loop", "done", "throw"}
  /\ \A i \in 1..Len(parentElm) : \A j \in 1..Len(parentElm) :
       parentElm[i] = parentElm[j] => i = j
  /\ Len(oldCh) = Len(prevCh)

\* ------------------------------------------------- virtual DOM: vnode trees
\* A vnode tree: node 1 is the root, every other node names its parent (a
\* smaller number); the children of a node are ordered by number.  The one
\* node below a component vnode is the root of what its instance rendered
\* (componentInstance._vnode), it is no entry of vnode.children.
\*   "el"     element vnode without data      "text"   text vnode
\*   "elData" element vnode with data         "comp"   component vnode
\*   "compKA" component vnode with data.keepAlive
VKinds == {"el", "elData", "text", "comp", "compKA"}
IsComp(k) == k \in {"comp", "compKA"}

WellFormed(t) ==
  /\ t[1].parent = 0
  /\ \A n \in 2..Len(t) : t[n].parent \in 1..(n - 1)
  /\ \A n \in 1..Len(t) :
       LET below == {c \in 1..Len(t) : t[c].parent = n}
       IN /\ t[n].kind = "text" => below = {}
          /\ IsComp(t[n].kind) => Cardinality(below) = 1

VTrees ==
  UNION {{t \in [1..n -> [parent : 0..(n - 1), kind : VKinds]] : WellFormed(t)} :
           n \in 1..MaxNodes}

Nodes == 1..Len(vtree)
kindOf(n) == vtree[n].kind
hasData(n) == kindOf(n) \in {"elData", "comp", "compKA"}
Below(n) == {c \in Nodes : vtree[c].parent = n}
\* vnode.children (undefined on a component vnode: no entries)
children(n) == IF IsComp(kindOf(n)) THEN {} ELSE Below(n)
\* componentInstance._vnode
innerVnode(n) == CHOOSE c \in Below(n) : TRUE
Ev(e, n) == [ev |-> e, node |-> n]

RECURSIVE isPatchable(_)
isPatchable(n) ==
  IF IsComp(kindOf(n)) THEN isPatchable(innerVnode(n)) ELSE kindOf(n) /= "text"

\* cbs.create and data.hook.create
invokeCreateHooks(n) == <<Ev("create", n)>>

\* insert(parentElm, vnode.elm, refElm): nothing when there is no parent
insertElm(n, hasParent) == IF hasParent THEN <<Ev("insert", n)>> ELSE <<>>

RECURSIVE createElmRec(_, _)
RECURSIVE createElmRec_ParentFirst(_, _)
RECURSIVE createChildren(_, _)

\* createChildren: createElm for the children from number c on, in order
createChildren(n, c) ==
  IF c > Len(vtree) THEN <<>>
  ELSE (IF c \in children(n) THEN createElmRec(c, TRUE) ELSE <<>>)
         \o createChildren(n, c + 1)

\* createComponent: the init hook creates and mounts the instance, which
\* patches (undefined, _vnode); then initComponent and the insertion
createComponent(n, hasParent) ==
  <<Ev("init", n)>> \o createElmRec(innerVnode(n), FALSE)
    \o (IF isPatchable(n) THEN invokeCreateHooks(n) ELSE <<Ev("registerRef", n)>>)
    \o insertElm(n, hasParent)

\* mutant: hooks and insertion first, children afterwards
createElmRec_ParentFirst(n, hasParent) ==
  IF IsComp(kindOf(n)) THEN createComponent(n, hasParent)
  ELSE IF kindOf(n) = "text" THEN <<Ev("createTextNode", n)>> \o insertElm(n, hasParent)
  ELSE <<Ev("createElement", n)>>
         \o (IF hasData(n) THEN invokeCreateHooks(n) ELSE <<>>)
         \o insertElm(n, hasParent)
         \o createChildren(n, 1)

\* createElm (web build): the calls made, in order
createElmRec(n, hasParent) ==
  IF IsComp(kindOf(n)) THEN createComponent(n, hasParent)
  ELSE IF kindOf(n) = "text" THEN <<Ev("createTextNode", n)>> \o insertElm(n, hasParent)
  ELSE <<Ev("createElement", n)>>
         \o createChildren(n, 1)
         \o (IF hasData(n) THEN invokeCreateHooks(n) ELSE <<>>)
         \o insertElm(n, hasParent)

\* the component instances directly below an instance: vm.$children
RECURSIVE childInstances(_)
childInstances(n) ==
  UNION {IF IsComp(kindOf(c)) THEN {c} ELSE childInstances(c) : c \in Below(n)}

RECURSIVE deactivateChildComponent(_)
RECURSIVE deactivateAll(_, _)
deactivateAll(S, c) ==
  IF c > Len(vtree) THEN <<>>
  ELSE (IF c \in S THEN deactivateChildComponent(c) ELSE <<>>) \o deactivateAll(S, c + 1)

deactivateChildComponent(n) ==
  IF inst[n] = "inactive" THEN <<>>
  ELSE deactivateAll(childInstances(n), 1) \o <<Ev("deactivated", n)>>

RECURSIVE invokeDestroyHook(_)
RECURSIVE invokeDestroyHook_ChildrenFirst(_)
RECURSIVE invokeDestroyHook_SkipChildren(_)
RECURSIVE destroyChildren(_, _)

destroyChildren(n, c) ==
  IF c > Len(vtree) THEN <<>>
  ELSE (IF c \in children(n) THEN invokeDestroyHook(c) ELSE <<>>)
         \o destroyChildren(n, c + 1)

\* Vue.prototype.$destroy of the instance of component vnode n
destroy(n) ==
  IF inst[n] \in {"destroying", "destroyed"} THEN <<>>
  ELSE <<Ev("beforeDestroy", n)>> \o invokeDestroyHook(innerVnode(n))
         \o <<Ev("destroyed", n)>>

\* componentVNodeHooks.destroy
componentDestroy(n) ==
  IF inst[n] = "destroyed" THEN <<>>
  ELSE IF kindOf(n) /= "compKA" THEN destroy(n)
  ELSE deactivateChildComponent(n)

\* the node's own hooks: data.hook.destroy, then cbs.destroy
ownDestroyHooks(n) ==
  IF ~hasData(n) THEN <<>>
  ELSE (IF IsComp(kindOf(n)) THEN <<Ev("hook.destroy", n)>> \o componentDestroy(n)
        ELSE <<>>)
         \o <<Ev("cbs.destroy", n)>>

\* mutant: the children's hooks before the node's own
invokeDestroyHook_ChildrenFirst(n) == destroyChildren(n, 1) \o ownDestroyHooks(n)

\* mutant: the children are not visited
invokeDestroyHook_SkipChildren(n) == ownDestroyHooks(n)

invokeDestroyHook(n) == ownDestroyHooks(n) \o destroyChildren(n, 1)

RECURSIVE patchVnodeRec(_, _, _)
RECURSIVE patchVnodeRec_NoIdentityTest(_, _, _)
RECURSIVE patchChildren(_, _, _, _)

\* updateChildren on two renders of the same children: every pair matches
\* start to start and is patched
patchChildren(n, c, oldGen, gen) ==
  IF c > Len(vtree) THEN <<>>
  ELSE (IF c \in children(n) THEN patchVnodeRec(c, oldGen, gen) ELSE <<>>)
         \o patchChildren(n, c + 1, oldGen, gen)

\* what patchVnode does past its identity test
patchVnodeBody(n, oldGen, gen) ==
  (IF IsComp(kindOf(n)) THEN <<Ev("prepatch", n)>> ELSE <<>>)
    \o (IF hasData(n) /\ isPatchable(n) THEN <<Ev("update", n)>> ELSE <<>>)
    \o patchChildren(n, 1, oldGen, gen)
    \o (IF IsComp(kindOf(n)) THEN <<Ev("postpatch", n)>> ELSE <<>>)

\* mutant: no test of oldVnode === vnode
patchVnodeRec_NoIdentityTest(n, oldGen, gen) == patchVnodeBody(n, oldGen, gen)

\* patchVnode(oldVnode, vnode) for node n of the renders oldGen and gen
patchVnodeRec(n, oldGen, gen) ==
  IF oldGen = gen THEN <<>> ELSE patchVnodeBody(n, oldGen, gen)

\* patch(oldVnode, vnode) on the root; a render is named by its number,
\* Null is no vnode
patch(oldGen, gen) ==
  IF gen = Null THEN (IF oldGen /= Null THEN invokeDestroyHook(1) ELSE <<>>)
  ELSE IF oldGen = Null THEN createElmRec(1, FALSE)
  ELSE patchVnodeRec(1, oldGen, gen)

\* the state of the component instances after the calls of a log
RECURSIVE instAfter(_, _)
instAfter(f, evs) ==
  IF evs = <<>> THEN f
  ELSE LET e == Head(evs)
           g == IF e.ev = "init" THEN [f EXCEPT ![e.node] = "alive"]
                ELSE IF e.ev = "beforeDestroy" THEN [f EXCEPT ![e.node] = "destroying"]
                ELSE IF e.ev = "destroyed" THEN [f EXCEPT ![e.node] = "destroyed"]
                ELSE IF e.ev = "deactivated" THEN [f EXCEPT ![e.node] = "inactive"]
                ELSE f
       IN instAfter(g, Tail(evs))

Renders(calls) == Cardinality({i \in 1..Len(calls) : calls[i] \in {"create", "render"}})

DoPatch(call, oldGen, gen) ==
  /\ Len(patchCalls) < MaxPatchCalls
  /\ patchCalls' = Append(patchCalls, call)
  /\ evLog' = evLog \o patch(oldGen, gen)
  /\ inst' = instAfter(inst, patch(oldGen, gen))
  /\ UNCHANGED <<watcherVars, subs, val, schedVars, phase, cbWrites, budget,
                 histVars, patchVars, obsVars, vtree>>

\* patch(null, A)
PatchCreate ==
  /\ patchCalls = <<>>
  /\ DoPatch("create", Null, 1)

Mounted == patchCalls /= <<>> /\ patchCalls[Len(patchCalls)] /= "destroy"

\* patch(A, A): the identical vnode on both sides
PatchIdentical ==
  /\ Mounted
  /\ DoPatch("identical", Renders(patchCalls), Renders(patchCalls))

\* patch(A, B): B a new render of the same tree
PatchRender ==
  /\ Mounted
  /\ DoPatch("render", Renders(patchCalls), Renders(patchCalls) + 1)

\* patch(A, null)
PatchDestroy ==
  /\ Mounted
  /\ DoPatch("destroy", Renders(patchCalls), Null)

InitTree ==
  /\ NoWatchers
  /\ NoPatch
  /\ NoObs
  /\ vtree \in VTrees
  /\ patchCalls = <<>>
  /\ evLog = <<>>
  /\ inst = [n \in 1..Len(vtree) |-> "none"]

NextTree ==
  \/ PatchCreate
  \/ PatchIdentical
  \/ PatchRender
  \/ PatchDestroy

SpecTree == InitTree /\ [][NextTree]_vars

\* ------------------------------------------------------------- claims
CountIn(q, w) == Cardinality({i \in 1..Len(q) : q[i].id = w})
QueuedBefore(q, w) == Cardinality({i \in 1..Len(q) : q[i].id = w /\ q[i].at = 0})

\* C1: however often their fields were written while no flush is in
\* progress, every watcher is in the queue at most once (and exactly the
\* watchers marked in has are); the flush runs the queue from its head, so
\* when its loop ends each of them has had exactly one run() for the writes
\* made before the flush.
C1_CoalescedOncePerFlush ==
  /\ ~flushing =>
       /\ \A w \in Watchers : CountIn(queue, w) = IF w \in has THEN 1 ELSE 0
       /\ \A i \in 1..Len(queue) : queue[i].at = 0
       /\ waiting <=> queue /= <<>>
  /\ flushing =>
       /\ \A w \in Watchers : QueuedBefore(queue, w) <= 1
       /\ Len(runLog) = IF phase = "cb" THEN index + 1 ELSE index
       /\ \A i \in 1..Len(runLog) :
            runLog[i].id = queue[i].id /\ runLog[i].at = queue[i].at
  /\ (phase = "loop" /\ outcome = "running" /\ index >= Len(queue)) =>
       \A w \in Watchers : QueuedBefore(runLog, w) = QueuedBefore(queue, w)

\* a user watcher is queued once although its field was written at least
\* twice since its last evaluation (the field is back at the value seen then)
C1_Witness ==
  \E w \in Watchers :
    /\ ~flushing /\ user[w] /\ active[w] /\ w \in has
    /\ val[path[w]] = value[w]
    /\ CountIn(queue, w) = 1

\* C2 as stated: within a flush the ids of the watchers run() is called on
\* never decrease.
C2_AscendingRuns ==
  \A i \in 1..(Len(runLog) - 1) : runLog[i].id <= runLog[i + 1].id

\* C2 amended: within a flush run() is called in ascending id order, except
\* on a watcher that was enqueued while the watcher run just before it was
\* running: such a watcher runs next even if its id is not larger.
C2_AscendingUnlessQueuedByPrevious ==
  \A i \in 1..(Len(runLog) - 1) :
    runLog[i].id < runLog[i + 1].id \/ runLog[i + 1].at = i

C2_Witness ==
  \E i \in 1..(Len(runLog) - 1) :
    runLog[i + 1].id <= runLog[i].id /\ runLog[i + 1].at = i

\* C7: when the flush reaches the entry of a watcher that has been torn
\* down, run() does nothing: no evaluation (the subscriber lists, the
\* watcher's dependencies and value stay as they are) and no callback; the
\* loop moves on to the next entry.
C7_TornDownIsSkipped ==
  [][(phase = "loop" /\ outcome = "running" /\ index < Len(queue)
        /\ ~active[queue[index + 1].id])
      => (subs' = subs /\ deps' = deps /\ value' = value /\ phase' = "loop"
            /\ index' = index + 1 /\ ~runLog'[Len(runLog')].evald
            /\ ~runLog'[Len(runLog')].cb)]_vars

\* the flush has processed the pending entry of a torn-down watcher
C7_Witness ==
  \E i \in 1..Len(runLog) : ~runLog[i].active /\ ~runLog[i].evald

\* C3 as stated: when the runaway diagnostic has been issued and the loop is
\* left, no watcher other than the runaway one is left unprocessed in the
\* queue (every other pending watcher has been run).
C3_OthersStillRun ==
  outcome = "break" => Unprocessed \subseteq {warned}

\* C3 amended: when a watcher has been re-enqueued more than
\* MAX_UPDATE_COUNT times within one flush, the runaway diagnostic is
\* reported and the flush loop is left at once: neither that watcher nor any
\* other watcher still pending is run in that flush, the reset discards
\* their entries.  The diagnostic is issued at that count and not before.
C3_RunawayEndsFlush ==
  [][/\ warned' /= 0 => (outcome' = "break" /\ circular'[warned'] = MAX_UPDATE_COUNT + 1)
     /\ (\E w \in Watchers : circular'[w] > MAX_UPDATE_COUNT) => warned' /= 0
     /\ outcome = "break" =>
          (dropped = Unprocessed /\ warned \in dropped /\ queue' = <<>>
             /\ has' = {} /\ ~flushing' /\ ~waiting' /\ phase' = "idle")]_vars

\* the loop was left by the diagnostic while another watcher was pending
C3_Witness ==
  outcome = "break" /\ warned /= 0 /\ dropped \ {warned} /= {}

\* C4 as stated: once a flush in which an evaluation or a callback raised an
\* error is over, the scheduler is idle: not flushing, no flush marked as
\* scheduled, queue and membership set empty.
C4_IdleAfterError ==
  (phase = "idle" /\ outcome = "throw") =>
    (~flushing /\ ~waiting /\ queue = <<>> /\ has = {})

SubscribedTo(sb, w) == {d \in Fields : w \in Range(sb[d])}

\* the step contains a completed evaluation of w: by run(), by evaluate()
\* or by the constructor
Evaluated(w) ==
  \/ lazy[w] /\ dirty[w] /\ ~dirty'[w]
  \/ /\ Len(runLog') = Len(runLog) + 1
     /\ runLog'[Len(runLog')].id = w
     /\ runLog'[Len(runLog')].evald
  \/ uid = w - 1 /\ uid' = w /\ ~lazy'[w]

\* C5 as stated: after every completed evaluation of a watcher, the Deps
\* whose subscriber list contains the watcher are exactly the Deps read
\* during that evaluation.
C5_SubscribedEqualsRead ==
  [][\A w \in Watchers : Evaluated(w) => SubscribedTo(subs', w) = deps'[w]]_vars

\* C5 amended: after every completed evaluation of a watcher that is still
\* active when the evaluation completes, the Deps whose subscriber list
\* contains the watcher are exactly the Deps read during that evaluation.
\* (A watcher torn down before or during the evaluation is not covered.)
C5_ActiveSubscribedEqualsRead ==
  [][\A w \in Watchers :
       (Evaluated(w) /\ active'[w]) => SubscribedTo(subs', w) = deps'[w]]_vars

\* an active watcher run in this flush is subscribed, behind a watcher
\* constructed after it, to a Dep it did not read in its constructor
C5_Witness ==
  \E i \in 1..Len(runLog) : \E x \in Watchers : \E d \in Fields :
    LET w == runLog[i].id
    IN /\ runLog[i].evald /\ active[w] /\ ~lazy[w] /\ w < x
       /\ IndexOf(subs[d], x, 1) /= 0
       /\ IndexOf(subs[d], x, 1) < IndexOf(subs[d], w, 1)
       /\ SubscribedTo(subs, w) = deps[w]

\* C6 as stated: a watcher that has been torn down is in no Dep's subscriber
\* list, in any state reached afterwards.
C6_TornDownUnsubscribed ==
  \A w \in 1..uid : ~active[w] => SubscribedTo(subs, w) = {}

UniqueKeys(ch) ==
  \A i \in 1..Len(ch) : \A j \in 1..Len(ch) : ch[i].key = ch[j].key => i = j

KeysOf(ch) == [i \in 1..Len(ch) |-> ch[i].key]

\* every key has one tag throughout the old and the new list
SameElements ==
  \A i \in 1..Len(newCh) : \A j \in 1..Len(prevCh) :
    newCh[i].key = prevCh[j].key => newCh[i].tag = prevCh[j].tag

\* a finished diff, moves enabled, of lists with unique keys
UniqueKeyedDiffDone ==
  patching = "done" /\ canMove /\ UniqueKeys(prevCh) /\ UniqueKeys(newCh)

\* C8 as stated: after the diff (moves enabled) of an old and a new child
\* list whose keys are unique within each list, the parent's children are
\* the host nodes of the new list in the new list's order, and the host node
\* of every key present in both lists is reused.
C8_EveryCommonKeyReused ==
  UniqueKeyedDiffDone =>
    /\ parentElm = [i \in 1..Len(newCh) |-> newCh[i].elm]
    /\ \A i \in 1..Len(newCh) : \A j \in 1..Len(prevCh) :
         newCh[i].key = prevCh[j].key => newCh[i].elm = prevCh[j].elm

\* C8 amended: the diff (moves enabled) of lists with unique keys never
\* fails, and after it the parent's children are the host nodes of the new
\* list in the new list's order; a new child is rendered by the host node of
\* the old child with the same key when that old child is the same vnode
\* (same key and same tag), and by a newly created host node otherwise: an
\* old child with the same key but another tag is not reused, its host node
\* is removed.
C8_OrderAndSameVnodeReused ==
  /\ (canMove /\ UniqueKeys(prevCh) /\ UniqueKeys(newCh)) => patching /= "throw"
  /\ UniqueKeyedDiffDone =>
       /\ parentElm = [i \in 1..Len(newCh) |-> newCh[i].elm]
       /\ \A i \in 1..Len(newCh) :
            /\ \A j \in 1..Len(prevCh) :
                 sameVnode(prevCh[j], newCh[i]) => newCh[i].elm = prevCh[j].elm
            /\ (\A j \in 1..Len(prevCh) : ~sameVnode(prevCh[j], newCh[i]))
                 => newCh[i].elm > Len(prevCh)

\* a finished diff that moved a reused node, created a node and removed one
C8_Witness ==
  /\ UniqueKeyedDiffDone
  /\ \E i \in 1..Len(hostOps) :
       hostOps[i].op = "insertBefore" /\ hostOps[i].elm <= Len(prevCh)
  /\ \E i \in 1..Len(hostOps) : hostOps[i].op = "createElement"
  /\ \E i \in 1..Len(hostOps) : hostOps[i].op = "removeChild"

\* C9: the diff of [a,b,c] to [c,a,b] makes one call on the host: the node
\* of c (node 3) is inserted before the node of a (node 1); nothing is
\* created or removed, and the children end as c, a, b.
C9_RotationIsOneMove ==
  (/\ patching = "done" /\ canMove /\ SameElements
   /\ KeysOf(prevCh) = <<"a", "b", "c">>
   /\ KeysOf(newCh) = <<"c", "a", "b">>)
  => /\ hostOps = <<HostOp("insertBefore", 3, 1)>>
     /\ parentElm = <<3, 1, 2>>

C9_Witness ==
  /\ patching = "done" /\ canMove /\ SameElements
  /\ KeysOf(prevCh) = <<"a", "b", "c">>
  /\ KeysOf(newCh) = <<"c", "a", "b">>
  /\ Len(hostOps) = 1

\* C10: the diff of [a,b] to [a,x,b] makes two calls on the host: a node is
\* created for x (node 3) and inserted before the node of b (node 2); the
\* nodes of a and b are neither moved nor removed, and the children end as
\* a, x, b.
C10_InsertionIsOneCreate ==
  (/\ patching = "done" /\ canMove /\ SameElements
   /\ KeysOf(prevCh) = <<"a", "b">>
   /\ KeysOf(newCh) = <<"a", "x", "b">>)
  => /\ hostOps = <<HostOp("createElement", 3, Null), HostOp("insertBefore", 3, 2)>>
     /\ parentElm = <<1, 3, 2>>
     /\ newCh[1].elm = 1 /\ newCh[3].elm = 2

C10_Witness ==
  /\ patching = "done" /\ canMove /\ SameElements
  /\ KeysOf(prevCh) = <<"a", "b">>
  /\ KeysOf(newCh) = <<"a", "x", "b">>
  /\ Cardinality(Created(hostOps)) = 1

\* the host calls of a diff, by kind: a move places a node of the old list,
\* an insert places a created node
Moves(ops) ==
  {i \in 1..Len(ops) : ops[i].op \in {"insertBefore", "appendChild"}
                         /\ ops[i].elm <= Len(prevCh)}
Inserts(ops) ==
  {i \in 1..Len(ops) : ops[i].op \in {"insertBefore", "appendChild"}
                         /\ ops[i].elm > Len(prevCh)}
Removes(ops) == {i \in 1..Len(ops) : ops[i].op = "removeChild"}

\* the new list is the old list followed by new children
IsAppend ==
  /\ Len(newCh) >= Len(prevCh)
  /\ \A i \in 1..Len(prevCh) : sameVnode(prevCh[i], newCh[i])

\* the new list is new children followed by the old list
IsPrepend ==
  /\ Len(newCh) >= Len(prevCh)
  /\ \A i \in 1..Len(prevCh) :
       sameVnode(prevCh[i], newCh[Len(newCh) - Len(prevCh) + i])

\* the new list is the old list reversed
IsReversal ==
  /\ Len(newCh) = Len(prevCh)
  /\ \A i \in 1..Len(prevCh) : sameVnode(prevCh[i], newCh[Len(prevCh) + 1 - i])

\* C11: after the diff (moves enabled) of unique-keyed lists, appending or
\* prepending k new children has made exactly k creates and k inserts and
\* no move or remove; a full reversal of n children has made at most n
\* moves and no create or remove.
C11_LinearHostOperations ==
  UniqueKeyedDiffDone =>
    /\ (IsAppend \/ IsPrepend) =>
         /\ Cardinality(Created(hostOps)) = Len(newCh) - Len(prevCh)
         /\ Cardinality(Inserts(hostOps)) = Len(newCh) - Len(prevCh)
         /\ Moves(hostOps) = {}
         /\ Removes(hostOps) = {}
    /\ IsReversal =>
         /\ Cardinality(Moves(hostOps)) <= Len(prevCh)
         /\ Created(hostOps) = {}
         /\ Removes(hostOps) = {}

\* the reversal of three children is done, by moves
C11_Witness ==
  /\ UniqueKeyedDiffDone /\ IsReversal /\ Len(prevCh) = 3
  /\ Moves(hostOps) /= {}

LastCall == IF patchCalls = <<>> THEN "none" ELSE patchCalls[Len(patchCalls)]
Count(e, n) == Cardinality({i \in 1..Len(evLog) : evLog[i] = Ev(e, n)})
Happened(e, n) == \E i \in 1..Len(evLog) : evLog[i] = Ev(e, n)
\* position of the first call e on node n
Idx(e, n) == CHOOSE i \in 1..Len(evLog) : evLog[i] = Ev(e, n)
                 /\ \A j \in 1..(i - 1) : evLog[j] /= Ev(e, n)

RECURSIVE InsideKeptAlive(_)
InsideKeptAlive(n) ==
  LET p == vtree[n].parent
  IN p /= 0 /\ (kindOf(p) = "compKA" \/ InsideKeptAlive(p))

RECURSIVE IsUnder(_, _)
IsUnder(d, n) ==
  LET p == vtree[d].parent IN p /= 0 /\ (p = n \/ IsUnder(p, n))

\* C12: a call of patch with the identical vnode on both sides invokes no
\* hook and makes no host call, and leaves every component instance as it is.
C12_IdenticalPatchIsSilent ==
  [][(patchCalls' = Append(patchCalls, "identical"))
       => (evLog' = evLog /\ inst' = inst)]_vars

\* patch(A, A) was called on a tree whose patch against a new render did
\* invoke update hooks
C12_Witness ==
  /\ Len(patchCalls) = 3
  /\ patchCalls[2] = "render" /\ patchCalls[3] = "identical"
  /\ \E n \in Nodes : Happened("update", n)

WritesTo(d) == {i \in 1..Len(burst) : burst[i].d = d}
FirstWrite(d) == CHOOSE i \in WritesTo(d) : \A j \in WritesTo(d) : i <= j

\* since the last flush, field d held a value other than 1 and was then
\* assigned 1 at least twice, and nothing else
WrittenToOneTwice(d) ==
  /\ Cardinality(WritesTo(d)) >= 2
  /\ \A i \in WritesTo(d) : burst[i].v = "1"
  /\ burst[FirstWrite(d)].old /= "1"

\* the loop of the flush has run every queued watcher
LoopDone == phase = "loop" /\ outcome = "running" /\ index >= Len(queue)

RunsOf(w) == {i \in 1..Len(runLog) : runLog[i].id = w}

\* C16: when a field that does not hold 1 is assigned 1 twice before the
\* flush, the flush invokes run() of the watcher of that field exactly once,
\* and its callback is called with newValue = 1 and oldValue = the value the
\* field held before the first assignment.
C16_TwoWritesOneRun ==
  \A d \in Fields : \A w \in Watchers :
    (LoopDone /\ WrittenToOneTwice(d) /\ user[w] /\ path[w] = d)
      => /\ Cardinality(RunsOf(w)) = 1
         /\ \A i \in RunsOf(w) :
              /\ runLog[i].cb
              /\ runLog[i].newValue = "1"
              /\ runLog[i].oldValue = burst[FirstWrite(d)].old

C16_Witness ==
  \E d \in Fields : \E w \in Watchers :
    /\ LoopDone /\ WrittenToOneTwice(d) /\ user[w] /\ path[w] = d
    /\ \E i \in RunsOf(w) : runLog[i].cb /\ runLog[i].newValue = "1"

\* C17: between two flushes flushSchedulerQueue is handed to nextTick at most
\* once; whatever number of watchers was enqueued while no flush runs,
\* exactly one flush is scheduled.
C17_OneScheduledFlush ==
  /\ Len(callbacks) <= 1
  /\ (~flushing /\ queue /= <<>>) => (Len(callbacks) = 1 /\ pending /\ waiting)

C17_Witness == ~flushing /\ Len(queue) >= 2 /\ Len(callbacks) = 1

\* 1-based position of the first queue entry the flush has not started (in
\* a callback and after the break the scan pointer is at the entry that ran)
FirstUnprocessed ==
  IF phase = "cb" \/ outcome = "break" THEN index + 2 ELSE index + 1

RunawayCallback == phase = "cb" /\ Rewrites(Current.id)

SchedulerReset ==
  phase = "idle" /\ ~flushing /\ ~waiting /\ queue = <<>> /\ has = {} /\ index = 0

C20_CallbackErrorDoesNotAbort ==
  /\ [](outcome /= "throw")
  /\ [][("callback" \notin reported /\ "callback" \in reported')
         => /\ phase = "cb" /\ user[Current.id]
            /\ phase' = "loop" /\ outcome' = "running"
            /\ queue' = queue /\ index' = index + 1]_vars
  /\ []((LoopDone /\ "callback" \in reported)
         => /\ Len(runLog) = Len(queue)
            /\ \A i \in 1..Len(queue) : runLog[i].id = queue[i].id)

\* the one callback called in this flush threw, and a watcher behind it in
\* the queue was evaluated afterwards
C20_Witness ==
  /\ LoopDone /\ "callback" \in reported
  /\ Cardinality({i \in 1..Len(runLog) : runLog[i].cb}) = 1
  /\ \E i \in 1..(Len(runLog) - 1) : runLog[i].cb /\ user[runLog[i].id]
  /\ runLog[Len(runLog)].evald

C22_NotifyUpdatesSnapshot ==
  /\ dep.at = "loop"
       => /\ Len(dep.calls) = dep.i
          /\ dep.i <= Len(dep.before)
          /\ \A k \in 1..dep.i : dep.calls[k] = dep.before[k]
  /\ dep.at = "done" => dep.calls = dep.before

\* notify() is through although update() calls removed and added subscribers
C22_Witness ==
  /\ dep.at = "done" /\ Len(dep.before) = NumWatchers
  /\ \E w \in Range(dep.before) : w \notin Range(dep.subs)
  /\ \E w \in Range(dep.subs) : w \notin Range(dep.before)

\* the values held by object o: its fields or its elements
Holds(h, o) == {h[o].f[key] : key \in DOMAIN h[o].f} \cup Range(h[o].e)

CountOf(e, v) == Cardinality({i \in 1..Len(e) : e[i] = v})

\* what the native method makes of the elements e
NativeChange(method, e, args, e2) ==
  CASE method = "push" -> e2 = e \o args[1]
    [] method = "unshift" -> e2 = args[1] \o e
    [] method = "pop" -> IF e = <<>> THEN e2 = <<>> ELSE e = Append(e2, e[Len(e)])
    [] method = "shift" -> IF e = <<>> THEN e2 = <<>> ELSE e = <<e[1]>> \o e2
    [] method = "splice" ->
         /\ Len(e2) = Len(e) - args[2] + Len(args[3])
              \/ (args[1] = Len(e) /\ Len(e2) = Len(e) + Len(args[3]))
         /\ \A i \in 1..args[1] : e2[i] = e[i]
         /\ \A i \in 1..Len(args[3]) : e2[args[1] + i] = args[3][i]
         /\ \A i \in 1..(Len(e2) - args[1] - Len(args[3])) :
              e2[Len(e2) + 1 - i] = e[Len(e) + 1 - i]
    [] method = "sort" ->
         /\ \A i \in 1..(Len(e2) - 1) : e2[i] <= e2[i + 1]
         /\ Len(e2) = Len(e)
         /\ \A v \in HeapVals : CountOf(e2, v) = CountOf(e, v)
    [] method = "reverse" ->
         /\ Len(e2) = Len(e)
         /\ \A i \in 1..Len(e) : e2[i] = e[Len(e) + 1 - i]

NewlyInserted(method, args) ==
  CASE method \in {"push", "unshift"} -> Range(args[1])
    [] method = "splice" -> Range(args[3])
    [] OTHER -> {}

C24_SetDefinesAndNotifies ==
  [][\A o \in Objs :
       (opLog'.tick /= opLog.tick /\ heap[o].kind = "obj" /\ heap[o].ob /\ ~heap[o].root)
         => \A key \in HKeys, v \in HeapVals :
              HeapSet(o, key, v)
                => IF key \notin DOMAIN heap[o].f
                   THEN /\ key \in DOMAIN heap'[o].f
                        /\ heap'[o].f[key] = v
                        /\ key \in heap'[o].rk
                        /\ opLog'.notified = <<obDep(o)>>
                   ELSE IF v = heap[o].f[key]
                        THEN heap' = heap /\ opLog'.notified = <<>>
                        ELSE /\ heap'[o].f[key] = v
                             /\ opLog'.notified = <<<<o, key>>>>]_vars

\* set() has added the key "n" to an observed object below the root
C24_Witness ==
  \E o \in Objs \ {1} :
    /\ heap /= <<>>
    /\ heap[o].kind = "obj" /\ heap[o].ob
    /\ "n" \in heap[o].rk
    /\ opLog.notified = <<obDep(o)>>

\* the values stored in the reactive fields of an observed object or in an
\* observed array
StoredReactive(o) ==
  IF heap[o].kind = "arr" THEN Range(heap[o].e)
  ELSE {heap[o].f[key] : key \in heap[o].rk}

Root == 1
MaxLifeOps == 4

\* the instance state the hooks work on
Life == [vm |-> vm, hookLog |-> hookLog, updatedLog |-> updatedLog,
         cache |-> cache, keys |-> keys,
         activatedChildren |-> activatedChildren, uid |-> uid,
         active |-> active]

SetLife(L) ==
  /\ vm' = L.vm
  /\ hookLog' = L.hookLog
  /\ updatedLog' = L.updatedLog
  /\ cache' = L.cache
  /\ keys' = L.keys
  /\ activatedChildren' = L.activatedChildren
  /\ uid' = L.uid
  /\ active' = L.active

callHook(L, i, hook) == [L EXCEPT !.hookLog[i] = Append(@, hook)]

\* while (vm && (vm = vm.$parent)) if (vm._inactive) return true
isInInactiveTree(L, i) == i /= Root /\ L.vm[Root].inactive = "true"

activateChild(L, i, direct) ==
  LET L0 == IF direct THEN [L EXCEPT !.vm[i].directInactive = FALSE] ELSE L
  IN IF direct /\ isInInactiveTree(L0, i) THEN L0
     ELSE IF ~direct /\ L0.vm[i].directInactive THEN L0
     ELSE IF L0.vm[i].inactive \in {"true", "null"}
     THEN callHook([L0 EXCEPT !.vm[i].inactive = "false"], i, "activated")
     ELSE L0

deactivateChild(L, i, direct) ==
  LET L0 == IF direct THEN [L EXCEPT !.vm[i].directInactive = TRUE] ELSE L
  IN IF direct /\ isInInactiveTree(L0, i) THEN L0
     ELSE IF L0.vm[i].inactive /= "true"
     THEN callHook([L0 EXCEPT !.vm[i].inactive = "true"], i, "deactivated")
     ELSE L0

queueActivatedComponent(L, i) ==
  [L EXCEPT !.vm[i].inactive = "false", !.activatedChildren = Append(@, i)]

\* Vue.prototype.$destroy of an instance that renders no components
vmDestroy(L, i) ==
  IF L.vm[i].isBeingDestroyed THEN L
  ELSE LET L1 == callHook(L, i, "beforeDestroy")
           L2 == [L1 EXCEPT !.vm[i].isBeingDestroyed = TRUE,
                            !.active[i] = FALSE,   \* vm._watcher.teardown()
                            !.vm[i].isDestroyed = TRUE]
       IN callHook(L2, i, "destroyed")

\* mutant: the destroy hook destroys a kept-alive instance as well
destroyHook_Always(L, v) ==
  IF ~L.vm[v.componentInstance].isDestroyed
  THEN vmDestroy(L, v.componentInstance)
  ELSE L

\* componentVNodeHooks.destroy
destroyHook(L, v) ==
  LET i == v.componentInstance
  IN IF ~L.vm[i].isDestroyed
     THEN IF ~v.keepAlive THEN vmDestroy(L, i)
          ELSE deactivateChild(L, i, TRUE)
     ELSE L

\* mutant: the insert hook calls mounted on every insertion
firstInsert_Always(L, i) == TRUE

\* componentVNodeHooks.insert: if (!componentInstance._isMounted)
firstInsert(L, i) == ~L.vm[i].isMounted

insertHook(L, v) ==
  LET i == v.componentInstance
      L1 == IF firstInsert(L, i)
            THEN callHook([L EXCEPT !.vm[i].isMounted = TRUE], i, "mounted")
            ELSE L
  IN IF v.keepAlive
     THEN IF L1.vm[Root].isMounted  \* context._isMounted
          THEN queueActivatedComponent(L1, i)
          ELSE activateChild(L1, i, TRUE)
     ELSE L1

\* _init and mountComponent of a child: beforeCreate, created, beforeMount,
\* the render watcher; mounted is left to the insert hook ($vnode != null)
createChild(L, c) ==
  LET i == L.uid + 1
      L1 == [L EXCEPT !.vm[i] = NewVm(c)]
      L2 == callHook(callHook(L1, i, "beforeCreate"), i, "created")
      L3 == callHook(L2, i, "beforeMount")
  IN [L3 EXCEPT !.uid = i, !.active[i] = TRUE]

\* componentVNodeHooks.init: the test for a kept-alive instance
reusable(L, v) ==
  /\ v.componentInstance /= 0
  /\ ~L.vm[v.componentInstance].isDestroyed
  /\ v.keepAlive

\* componentVNodeHooks.init: prepatch of the kept-alive instance, or a new
\* instance that is mounted
componentInit(L, v) ==
  IF reusable(L, v)
  THEN [L |-> L, vnode |-> v]
  ELSE [L |-> createChild(L, v.ctor),
        vnode |-> [v EXCEPT !.componentInstance = L.uid + 1]]

\* keep-alive: pruneCacheEntry(cache, key, keys, current)
pruneCacheEntry(L, key, current) ==
  LET cached == L.cache[key]
      L1 == IF cached /= 0 /\ (current = NoVnode \/ key /= current.ctor)
            THEN vmDestroy(L, cached)
            ELSE L
  IN [L1 EXCEPT !.cache[key] = 0, !.keys = remove(@, key)]

\* the root's render of the placeholder for component c; inside <keep-alive>
\* its render looks the instance up in the cache, the key being the
\* constructor, and on a miss enters the key and prunes the oldest entry
render(L, c) ==
  IF c = NoCtor THEN [L |-> L, vnode |-> NoVnode]
  ELSE IF ~wrap
  THEN [L |-> L,
        vnode |-> [ctor |-> c, componentInstance |-> 0, keepAlive |-> FALSE]]
  ELSE IF L.cache[c] /= 0
  THEN [L |-> [L EXCEPT !.keys = Append(remove(@, c), c)],
        vnode |-> [ctor |-> c, componentInstance |-> L.cache[c],
                   keepAlive |-> TRUE]]
  ELSE LET L1 == [L EXCEPT !.keys = Append(@, c)]
           L2 == IF max /= 0 /\ Len(L1.keys) > max
                 THEN pruneCacheEntry(L1, L1.keys[1], shown)
                 ELSE L1
       IN [L |-> L2,
           vnode |-> [ctor |-> c, componentInstance |-> 0, keepAlive |-> TRUE]]

\* cache[key] = vnode: the cached vnode is the one just rendered
cacheMiss(L, c) == wrap /\ c /= NoCtor /\ L.cache[c] = 0

\* render and patch of the root: sameVnode placeholders are prepatched, else
\* the new one is created (init), the old one removed (destroy), and the
\* insert hooks are invoked last
patchView(L, old, c) ==
  LET r == render(L, c)
      new == r.vnode
      enter(K, v) == IF cacheMiss(L, c)
                     THEN [K EXCEPT !.cache[c] = v.componentInstance]
                     ELSE K
  IN IF new = NoVnode
     THEN [L |-> IF old = NoVnode THEN r.L ELSE destroyHook(r.L, old),
           vnode |-> NoVnode]
     ELSE IF old /= NoVnode /\ old.ctor = new.ctor
     THEN LET v == [new EXCEPT !.componentInstance = old.componentInstance]
          IN [L |-> enter(r.L, v), vnode |-> v]
     ELSE LET a == componentInit(r.L, new)
              L1 == enter(a.L, a.vnode)
              L2 == IF old = NoVnode THEN L1 ELSE destroyHook(L1, old)
          IN [L |-> insertHook(L2, a.vnode), vnode |-> a.vnode]

\* the patch will call createChild
WillCreate(c) ==
  /\ c /= NoCtor
  /\ shown.ctor /= c
  /\ ~wrap \/ cache[c] = 0 \/ vm[cache[c]].isDestroyed

\* new Vue({el}): _init and mountComponent of the root
MountRoot ==
  /\ vm[Root].ctor = NoCtor
  /\ phase = "idle"
  /\ LET L1 == [Life EXCEPT !.vm[Root] = NewVm("root")]
         L2 == callHook(callHook(L1, Root, "beforeCreate"), Root, "created")
         L3 == callHook(L2, Root, "beforeMount")
         L4 == [L3 EXCEPT !.uid = Root, !.active[Root] = TRUE]
         p == patchView(L4, NoVnode, view)
         L5 == [p.L EXCEPT !.vm[Root].isMounted = TRUE]
     IN /\ SetLife(callHook(L5, Root, "mounted"))
        /\ shown' = p.vnode
  /\ UNCHANGED <<user, lazy, deep, path, dirty, value, deps, subs, val, schedVars,
                 phase, cbWrites, budget, histVars, patchVars, treeVars,
                 setterLog, notifyVars, heapVars, restVars, evalVars, view, wrap, max, lifeOps>>

\* a write while no flush runs, or by the hook or render function that runs
Writing == phase \in {"idle", "cb"}

\* the root's field view is assigned: its setter notifies the root's render
\* watcher, the only subscriber, unless teardown has removed it
SetView(c) ==
  /\ Writing
  /\ vm[Root].ctor /= NoCtor
  /\ lifeOps < MaxLifeOps
  /\ c /= view
  /\ view' = c
  /\ lifeOps' = lifeOps + 1
  /\ SetSched(IF active[Root] THEN queueWatcher(Sched, Root) ELSE Sched)
  /\ UNCHANGED <<uid, user, lazy, deep, path, active, value, deps, subs, val,
                 circular, flushing, index, phase, cbWrites, budget, histVars,
                 patchVars, treeVars, setterLog, notifyVars, heapVars, restVars, evalVars, vm,
                 hookLog, updatedLog, cache, keys, activatedChildren, shown, wrap, max>>

\* a field that the render function of child i reads is assigned
Touch(i) ==
  /\ Writing
  /\ i /= Root
  /\ vm[i].ctor /= NoCtor
  /\ active[i]
  /\ lifeOps < MaxLifeOps
  /\ lifeOps' = lifeOps + 1
  /\ SetSched(queueWatcher(Sched, i))
  /\ UNCHANGED <<uid, user, lazy, deep, path, active, value, deps, subs, val,
                 circular, flushing, index, phase, cbWrites, budget, histVars,
                 patchVars, treeVars, setterLog, notifyVars, heapVars, restVars, evalVars, vm,
                 hookLog, updatedLog, cache, keys, activatedChildren, shown, view, wrap,
                 max>>

RECURSIVE pruneAll(_, _)
pruneAll(L, ks) ==
  IF ks = <<>> THEN L
  ELSE pruneAll(pruneCacheEntry(L, ks[1], NoVnode), SubSeq(ks, 2, Len(ks)))

\* vm.$destroy() of the root: its tree is patched away, which calls the
\* destroy hook of the placeholder; the destroyed hook of <keep-alive> then
\* prunes every cache entry
DestroyRoot ==
  /\ Writing
  /\ vm[Root].ctor /= NoCtor
  /\ ~vm[Root].isBeingDestroyed
  /\ LET L1 == callHook(Life, Root, "beforeDestroy")
         L2 == [L1 EXCEPT !.vm[Root].isBeingDestroyed = TRUE,
                          !.active[Root] = FALSE,
                          !.vm[Root].isDestroyed = TRUE]
         L3 == IF shown = NoVnode THEN L2 ELSE destroyHook(L2, shown)
         L4 == IF wrap THEN pruneAll(L3, L3.keys) ELSE L3
     IN SetLife(callHook(L4, Root, "destroyed"))
  /\ UNCHANGED <<user, lazy, deep, path, dirty, value, deps, subs, val, schedVars,
                 phase, cbWrites, budget, histVars, patchVars, treeVars,
                 setterLog, notifyVars, heapVars, restVars, evalVars, shown, view, wrap, max,
                 lifeOps>>

\* mutant: before() calls beforeUpdate whatever the state of the instance
updating_Always(L, i) == TRUE

\* the test before() and callUpdatedHooks make: mounted and not destroyed
updating(L, i) == L.vm[i].isMounted /\ ~L.vm[i].isDestroyed

\* the before() of a render watcher
before(L, i) == IF updating(L, i) THEN callHook(L, i, "beforeUpdate") ELSE L

\* one iteration of the loop of flushSchedulerQueue over render watchers:
\* before(), has[id] = null, run(); the root's run renders and patches
LifeRun ==
  /\ phase = "loop"
  /\ outcome = "running"
  /\ index < Len(queue)
  /\ LET w == queue[index + 1].id
         L0 == before(Life, w)
     IN /\ (w = Root /\ runs(w) /\ WillCreate(view)) => uid < NumWatchers
        /\ has' = has \ {w}
        /\ IF w = Root /\ runs(w)
           THEN LET p == patchView(L0, shown, view)
                IN SetLife(p.L) /\ shown' = p.vnode
           ELSE SetLife(L0) /\ shown' = shown
  /\ phase' = "cb"
  /\ UNCHANGED <<user, lazy, deep, path, dirty, value, deps, subs, val, queue,
                 circular, waiting, flushing, index, callbacks, pending,
                 cbWrites, budget, histVars, patchVars, treeVars, setterLog,
                 notifyVars, heapVars, restVars, evalVars, view, wrap, max, lifeOps>>

\* the run returns: index++
LifeNext ==
  /\ phase = "cb"
  /\ phase' = "loop"
  /\ index' = index + 1
  /\ UNCHANGED <<watcherVars, subs, val, queue, has, circular, waiting,
                 flushing, callbacks, pending, cbWrites, budget, histVars,
                 patchVars, treeVars, obsVars>>

RECURSIVE callActivatedHooks(_, _)
callActivatedHooks(L, q) ==
  IF q = <<>> THEN L
  ELSE callActivatedHooks(
         activateChild([L EXCEPT !.vm[q[1]].inactive = "true"],
                                q[1], TRUE),
         SubSeq(q, 2, Len(q)))

\* mutant: the updated hooks are called from the first watcher to the last
RECURSIVE callUpdatedHooks_Forward(_, _)
callUpdatedHooks_Forward(L, q) ==
  IF q = <<>> THEN L
  ELSE LET i == q[1].id
           L1 == IF L.vm[i].isMounted /\ ~L.vm[i].isDestroyed
                 THEN [callHook(L, i, "updated") EXCEPT
                         !.updatedLog = Append(@, i)]
                 ELSE L
       IN callUpdatedHooks_Forward(L1, SubSeq(q, 2, Len(q)))

\* let i = queue.length; while (i--): from the last watcher to the first
RECURSIVE callUpdatedHooks(_, _)
callUpdatedHooks(L, q) ==
  IF q = <<>> THEN L
  ELSE LET i == q[Len(q)].id
           L1 == IF updating(L, i)
                 THEN [callHook(L, i, "updated") EXCEPT
                         !.updatedLog = Append(@, i)]
                 ELSE L
       IN callUpdatedHooks(L1, SubSeq(q, 1, Len(q) - 1))

\* the loop of flushSchedulerQueue is left: the queues are copied, the state
\* is reset, the activated and the updated hooks are called
LifeFlushEnd ==
  /\ phase = "loop"
  /\ index >= Len(queue)
  /\ resetSchedulerState
  /\ LET L1 == [Life EXCEPT !.activatedChildren = <<>>, !.updatedLog = <<>>]
         L2 == callActivatedHooks(L1, activatedChildren)
     IN SetLife(callUpdatedHooks(L2, queue))
  /\ phase' = "idle"
  /\ outcome' = "none"
  /\ UNCHANGED <<user, lazy, deep, path, dirty, value, deps, subs, val, callbacks,
                 pending, cbWrites, budget, runLog, warned, dropped, reported,
                 burst, patchVars, treeVars, setterLog, notifyVars, heapVars, restVars, evalVars,
                 shown, view, wrap, max, lifeOps>>

\* SpecLife: a root is mounted, with or without <keep-alive> and its max
\* prop, the shown component is switched, children re-render, the root is
\* destroyed
InitLife ==
  /\ NoWatchers /\ NoPatch /\ NoTree
  /\ setterLog = [tick |-> 0, d |-> 0, v |-> "0", calls |-> <<>>]
  /\ NoNotify /\ NoHeap /\ NoEvals /\ NoRest
  /\ vm = [i \in Watchers |-> NewVm(NoCtor)]
  /\ hookLog = [i \in Watchers |-> <<>>]
  /\ updatedLog = <<>>
  /\ cache = [c \in Ctors |-> 0]
  /\ keys = <<>>
  /\ activatedChildren = <<>>
  /\ shown = NoVnode
  /\ view \in Ctors \cup {NoCtor}
  /\ wrap \in BOOLEAN
  /\ max \in {0, 1}
  /\ wrap \/ max = 0
  /\ lifeOps = 0

NextLife ==
  \/ MountRoot
  \/ \E c \in Ctors \cup {NoCtor} : SetView(c)
  \/ \E i \in Watchers : Touch(i)
  \/ DestroyRoot
  \/ flushCallbacks
  \/ LifeRun
  \/ LifeNext
  \/ LifeFlushEnd

SpecLife == InitLife /\ [][NextLife]_vars

\* ------------------------------------------------- computed properties
\* Watchers 1 and 2 are the lazy watchers of two computed properties,
\* created by initComputed; watcher 3 is a render watcher created after
\* them.  The getter of a watcher reads some fields and then the computed
\* property uses names, which is one of a lazy watcher with a lower id.
MaxEvals == 2
MaxReads == 4
Reader == NumWatchers

\* what a getter may do in one evaluation: the getter of the first computed
\* property reads field 1 or not, the other getters field 2 or not, and a
\* getter returns or throws; the render function itself does not throw
PlansOf(w) ==
  [A : {{}, {IF w = 1 THEN 1 ELSE 2}},
   r : IF w = Reader THEN {Obj} ELSE {Obj, Throw}]

Plans == {<<p1, p2, p3>> : p1 \in PlansOf(1), p2 \in PlansOf(2), p3 \in PlansOf(3)}

\* the watchers an evaluation of w evaluates
RECURSIVE Involved(_)
Involved(w) ==
  {w} \cup (IF uses[w] /= 0 /\ dirty[uses[w]] THEN Involved(uses[w]) ELSE {})

NoPlan == [w \in Watchers |-> [A |-> {}, r |-> Obj]]

\* the plan says what the evaluated getters do and nothing else
PlanFor(plan, w) ==
   \A x \in Watchers \ Involved(w) : plan[x] = NoPlan[x]

\* what evaluations work on
Evals == [subs |-> subs, deps |-> deps, dirty |-> dirty, value |-> value,
          evals |-> evalLog.evals, returned |-> evalLog.returned,
          reads |-> {}, threw |-> FALSE]

\* computedGetter: if (Dep.target) watcher.depend()
forwards(tg) == tg /= 0

\* get() of watcher w, and for a lazy watcher the evaluate() around it: the
\* getter reads the fields plan[w].A and then the computed property
\* uses[w], whose getter evaluates its watcher when dirty and then makes w
\* depend on the Deps of that watcher; an error leaves through every getter
\* on the way, each running cleanupDeps in its finally block
RECURSIVE evaluation(_, _, _)
evaluation(st, w, plan) ==
  LET L == uses[w]
      s1 == addDep([newDepIds |-> {}, subs |-> st.subs], w, plan[w].A)
      st1 == [st EXCEPT !.subs = s1.subs, !.threw = FALSE,
                        !.evals[w] = IF lazy[w] THEN @ + 1 ELSE @]
      st2 == [st1 EXCEPT !.reads = @ \cup {<<w, L>>}]
      e == IF L = 0 THEN st1
           ELSE IF st2.dirty[L] THEN evaluation(st2, L, plan)
           ELSE st2
      s2 == IF L = 0 \/ e.threw \/ ~forwards(w)
            THEN [s1 EXCEPT !.subs = e.subs]
            ELSE addDep([s1 EXCEPT !.subs = e.subs], w, e.deps[L])
      th == e.threw \/ plan[w].r = Throw
  IN [e EXCEPT !.subs = cleanupDeps(s2.subs, w, s2.newDepIds),
               !.deps[w] = s2.newDepIds,
               !.threw = th,
               !.returned[w] = IF lazy[w] /\ ~th THEN @ + 1 ELSE @,
               !.value[w] = IF th THEN @ ELSE plan[w].r,
               !.dirty[w] = IF lazy[w] /\ ~th THEN FALSE ELSE @]

SetEvals(e, n, w) ==
  /\ subs' = e.subs
  /\ deps' = e.deps
  /\ dirty' = e.dirty
  /\ value' = e.value
  /\ evalLog' = [n |-> n, who |-> w, reads |-> e.reads, evals |-> e.evals,
                 returned |-> e.returned]

Capped(e) == \A w \in Watchers : e.evals[w] <= MaxEvals

\* new Watcher(vm, updateComponent, noop, ..., true): the render watcher is
\* constructed and evaluated
NewReader(plan) ==
  LET w == uid + 1
      e == evaluation(Evals, w, plan)
  IN /\ phase = "idle"
     /\ w = Reader
     /\ PlanFor(plan, w)
     /\ uid' = w
     /\ active' = [active EXCEPT ![w] = TRUE]
     /\ SetEvals(e, evalLog.n, 0)
     /\ UNCHANGED <<user, lazy, deep, path, val, schedVars, phase, cbWrites, budget,
                    histVars, patchVars, treeVars, setterLog, notifyVars,
                    heapVars, restVars, lifeVars, uses>>

\* the computed property of lazy watcher w is read while no watcher is
\* being evaluated: evaluate() when dirty
ReadValue(w, plan) ==
  LET e == IF dirty[w] THEN evaluation(Evals, w, plan) ELSE Evals
  IN /\ phase = "idle"
     /\ lazy[w]
     /\ IF dirty[w] THEN PlanFor(plan, w) ELSE plan = NoPlan
     /\ Capped(e)
     /\ evalLog.n < MaxReads
     /\ SetEvals(e, evalLog.n + 1, w)
     /\ UNCHANGED <<uid, user, lazy, deep, path, active, val, schedVars, phase,
                    cbWrites, budget, histVars, patchVars, treeVars,
                    setterLog, notifyVars, heapVars, restVars, lifeVars, uses>>

\* an assignment to a reactive field: update() of every subscriber; the
\* history starts anew for each of them
WriteNotifying(d, v) ==
  LET R == reactiveSetter(Sched, d, v)
      called == Range(R.calls)
  IN /\ phase = "idle"
     /\ val' = [val EXCEPT ![d] = v]
     /\ SetSched(R)
     /\ v /= val[d]
     /\ evalLog.n < MaxReads
     /\ evalLog' = [n |-> evalLog.n + 1, who |-> 0, reads |-> {},
                    evals |-> [w \in Watchers |->
                                 IF w \in called THEN 0 ELSE evalLog.evals[w]],
                    returned |-> [w \in Watchers |->
                                 IF w \in called THEN 0 ELSE evalLog.returned[w]]]
     /\ UNCHANGED <<uid, user, lazy, deep, path, active, value, deps, subs, circular,
                    flushing, index, phase, cbWrites, budget, histVars,
                    patchVars, treeVars, setterLog, notifyVars, heapVars,
                    lifeVars, restVars, uses>>

\* one iteration of the loop of flushSchedulerQueue for a render watcher:
\* has[id] = null, run(); an error of the getter leaves the flush
RunReader(plan) ==
  LET w == Current.id
      e == evaluation(Evals, w, plan)
  IN /\ phase = "loop"
     /\ outcome = "running"
     /\ index < Len(queue)
     /\ runs(w)
     /\ PlanFor(plan, w)
     /\ Capped(e)
     /\ has' = has \ {w}
     /\ SetEvals(e, evalLog.n, 0)
     /\ IF e.threw
        THEN FlushThrows
        ELSE /\ index' = index + 1
             /\ UNCHANGED <<queue, circular, waiting, flushing, callbacks,
                            pending, phase, outcome, warned, dropped,
                            reported, cbWrites, budget, patchVars, treeVars,
                            setterLog, notifyVars, heapVars, restVars, lifeVars>>
     /\ UNCHANGED <<uid, user, lazy, deep, path, active, val, runLog, burst, uses>>

\* SpecComputed: two computed properties, the second of which may read the
\* first, and a render watcher under reads, writes and flushes.  initComputed
\* has run: the lazy watchers exist, dirty and not evaluated.
InitComputed ==
  /\ uid = Reader - 1
  /\ user = [w \in Watchers |-> FALSE]
  /\ lazy = [w \in Watchers |-> w < Reader]
  /\ deep = [w \in Watchers |-> FALSE]
  /\ path = [w \in Watchers |-> 0]
  /\ active = [w \in Watchers |-> w < Reader]
  /\ dirty = [w \in Watchers |-> w < Reader]
  /\ value = [w \in Watchers |-> Undef]
  /\ deps = [w \in Watchers |-> {}]
  /\ subs = [d \in Fields |-> <<>>]
  /\ val = [d \in Fields |-> "0"]
  /\ queue = <<>>
  /\ has = {}
  /\ circular = [w \in Watchers |-> 0]
  /\ waiting = FALSE
  /\ flushing = FALSE
  /\ index = 0
  /\ callbacks = <<>>
  /\ pending = FALSE
  /\ phase = "idle"
  /\ cbWrites = 0
  /\ budget = Unlimited
  /\ runLog = <<>>
  /\ outcome = "none"
  /\ warned = 0
  /\ dropped = {}
  /\ reported = {}
  /\ burst = <<>>
  /\ NoPatch /\ NoTree
  /\ setterLog = [tick |-> 0, d |-> 0, v |-> "0", calls |-> <<>>]
  /\ NoNotify /\ NoHeap /\ NoLife /\ NoRest
  /\ uses \in [Watchers -> 0..(Reader - 1)]
  /\ \A w \in Watchers : uses[w] < w
  /\ evalLog = [n |-> 0, who |-> 0, reads |-> {}, evals |-> [w \in Watchers |-> 0],
                returned |-> [w \in Watchers |-> 0]]

NextComputed ==
  \/ \E plan \in Plans : NewReader(plan)
  \/ \E w \in Watchers, plan \in Plans : ReadValue(w, plan)
  \/ \E d \in Fields, v \in Vals : WriteNotifying(d, v)
  \/ flushCallbacks
  \/ \E plan \in Plans : RunReader(plan)
  \/ FlushEnd

SpecComputed == InitComputed /\ [][NextComputed]_vars

\* ------------------------------------------------ claims: duplicate keys
\* the lookup branch of the while body is taken: no slot at either end is
\* empty and none of the four end comparisons matches
ByKey ==
  /\ patching = "loop" /\ InLoop
  /\ ~isUndef(oldCh[oldStartIdx + 1]) /\ ~isUndef(oldCh[oldEndIdx + 1])
  /\ ~sameVnode(oldCh[oldStartIdx + 1], newCh[newStartIdx + 1])
  /\ ~sameVnode(oldCh[oldEndIdx + 1], newCh[newEndIdx + 1])
  /\ ~sameVnode(oldCh[oldStartIdx + 1], newCh[newEndIdx + 1])
  /\ ~sameVnode(oldCh[oldEndIdx + 1], newCh[newStartIdx + 1])

\* the indices of the remaining old range that carry key k
Carrying(k) == {i \in oldStartIdx..oldEndIdx : oldCh[i + 1].key = k}

\* the remaining old range holds two nodes with the key of the new start vnode
DuplicateLookup ==
  /\ ByKey
  /\ Cardinality(Carrying(newCh[newStartIdx + 1].key)) >= 2

\* idxInOld of the lookup this step makes
Selected(k) == oldKeyToIdx'[k]

\* C25 as stated: when the remaining old child range contains two nodes with
\* the same key, the diff proceeds without failing, and the key lookup for a
\* new node carrying that key selects the first (lowest-index) old node with
\* that key.
C25_FirstDuplicateSelected ==
  [][updateChildrenStep =>
       /\ ~UniqueKeys(prevCh) => patching' /= "throw"
       /\ DuplicateLookup =>
            LET k == newCh[newStartIdx + 1].key
            IN /\ k \in DOMAIN oldKeyToIdx'
               /\ k \in DOMAIN oldKeyToIdx' =>
                    \A i \in Carrying(k) : Selected(k) <= i]_vars

\* C25 amended: the lookup selects the last (highest-index) old node with
\* that key, never a lower-index duplicate; the diff fails only when the new
\* children repeat a key and the second lookup of it finds the slot that the
\* first lookup emptied.
C25_LastDuplicateSelected ==
  [][updateChildrenStep =>
       /\ patching' = "throw" =>
            /\ ~UniqueKeys(newCh)
            /\ ByKey
            /\ newCh[newStartIdx + 1].key \in DOMAIN oldKeyToIdx
            /\ isUndef(oldCh[oldKeyToIdx[newCh[newStartIdx + 1].key] + 1])
       /\ DuplicateLookup =>
            LET k == newCh[newStartIdx + 1].key
            IN /\ k \in DOMAIN oldKeyToIdx'
               /\ k \in DOMAIN oldKeyToIdx' =>
                    /\ prevCh[Selected(k) + 1].key = k
                    /\ \A i \in Carrying(k) : i <= Selected(k)]_vars

\* a lookup has just chosen between two old nodes with the key of the new
\* vnode it served, and the diff goes on
C25_Witness ==
  /\ patching = "loop"
  /\ newStartIdx >= 1
  /\ DOMAIN oldKeyToIdx /= {}
  /\ LET k == newCh[newStartIdx].key
     IN /\ k \in DOMAIN oldKeyToIdx
        /\ \E i \in 0..(Len(prevCh) - 1) :
             /\ i < oldKeyToIdx[k]
             /\ prevCh[i + 1].key = k
             /\ oldStartIdx <= i
             /\ oldKeyToIdx[k] <= oldEndIdx
             /\ Len(hostOps) = 1

\* ------------------------------------------------ claims: instance lifecycle
\* the positions of a hook in the log of instance i
CallsOf(i, hook) == {k \in 1..Len(hookLog[i]) : hookLog[i][k] = hook}

\* C26: for every component instance, mounted is invoked at most once, no
\* beforeUpdate or updated hook is invoked before the instance is mounted,
\* and none is invoked after the instance has been destroyed.
C26_HooksRespectStateOrder ==
  \A i \in Watchers :
    /\ Cardinality(CallsOf(i, "mounted")) <= 1
    /\ \A k \in CallsOf(i, "beforeUpdate") \cup CallsOf(i, "updated") :
         /\ \E m \in CallsOf(i, "mounted") : m < k
         /\ \A d \in CallsOf(i, "destroyed") : k < d

\* a child that had been mounted and updated is destroyed, and the flush has
\* passed its render watcher in the queue
C26_Witness ==
  \E i \in Watchers :
    /\ i /= Root
    /\ vm[i].isDestroyed
    /\ phase = "loop"
    /\ \E k \in 1..Len(queue) : queue[k].id = i /\ k <= index
    /\ CallsOf(i, "updated") /= {}

\* the root's render watcher runs: the root renders and patches
RootRuns == LifeRun /\ queue[index + 1].id = Root /\ active[Root]

\* the hooks this step calls on instance i
NewHooks(i) ==
  {hookLog'[i][k] : k \in (Len(hookLog[i]) + 1)..Len(hookLog'[i])}

\* C27: for a component placeholder flagged keep-alive, removal invokes the
\* deactivation path and never $destroy, and a later encounter of a
\* placeholder carrying the cached, non-destroyed instance reuses that
\* instance through prepatch: no second instance is created and no second
\* mount is performed.
C27_KeptAliveDeactivatedAndReused ==
  [][RootRuns =>
       /\ (shown.keepAlive /\ shown'.ctor /= shown.ctor) =>
            LET i == shown.componentInstance
            IN /\ NewHooks(i) = {"deactivated"}
               /\ vm'[i].inactive = "true"
               /\ ~vm'[i].isDestroyed /\ ~vm'[i].isBeingDestroyed
               /\ active'[i]
       /\ (wrap /\ view /= NoCtor /\ cache[view] /= 0
             /\ ~vm[cache[view]].isDestroyed) =>
            LET j == cache[view]
            IN /\ shown'.componentInstance = j
               /\ shown'.keepAlive
               /\ uid' = uid
               /\ NewHooks(j) \subseteq {"activated", "deactivated"}
               /\ Cardinality(CallsOf(j, "mounted")) = 1]_vars

\* a kept-alive instance was deactivated when its placeholder was removed
\* and is shown again, after another instance has been created
C27_Witness ==
  /\ shown.keepAlive
  /\ uid = NumWatchers
  /\ LET j == shown.componentInstance
     IN /\ j = 2
        /\ ~vm[j].isDestroyed
        /\ \E d \in CallsOf(j, "deactivated") : d < Len(hookLog[j])
        /\ Cardinality(CallsOf(j, "mounted")) = 1

\* ------------------------------------------------ claims: computed properties
\* the step assigns field d
Assigns(d) == val'[d] /= val[d]

\* the step is a read of the computed property of watcher w from outside
ReadsValue(w) == evalLog'.n = evalLog.n + 1 /\ evalLog'.who = w

\* update() of a lazy watcher only marks it dirty, and the computed getter
\* evaluates a dirty watcher and no other
MarkedThenEvaluatedOnRead ==
  /\ \A d \in Fields : \A w \in Range(subs[d]) :
       (Assigns(d) /\ lazy[w]) =>
         /\ dirty'[w]
         /\ value'[w] = value[w]
         /\ deps'[w] = deps[w]
         /\ w \notin has'
         /\ w \notin Range(SeqIds(queue'))
         /\ evalLog'.evals[w] = 0
  /\ \A w \in Watchers :
       ReadsValue(w) =>
         evalLog'.evals[w] = evalLog.evals[w] + (IF dirty[w] THEN 1 ELSE 0)
  /\ \A w \in Watchers :
       evalLog'.evals[w] > evalLog.evals[w] => dirty[w]

\* C29 as stated: update() on a lazy watcher only marks it dirty: it neither
\* evaluates nor enqueues the watcher; the evaluation function runs on the
\* next read through the computed getter, and at most once between two
\* consecutive notifications however many times the value is read.
C29_LazyEvaluatedOncePerNotification ==
  [][/\ MarkedThenEvaluatedOnRead
     /\ \A w \in Watchers : lazy[w] => evalLog'.evals[w] <= 1]_vars

\* C29 amended: the evaluation function returns at most once between two
\* consecutive notifications, and after it has returned no read runs it
\* again; an evaluation that throws leaves the watcher dirty, so that the
\* next read runs the evaluation function again.
C29_LazyReturnsOncePerNotification ==
  [][/\ MarkedThenEvaluatedOnRead
     /\ \A w \in Watchers :
          lazy[w] =>
            /\ evalLog'.returned[w] <= 1
            /\ evalLog'.returned[w] = 1 <=> (evalLog'.evals[w] > 0 /\ ~dirty'[w])
            /\ evalLog'.evals[w] > 1 => evalLog.evals[w] > evalLog.returned[w]
                                         \/ evalLog'.evals[w] = evalLog.evals[w]]_vars

\* a computed property that was notified and evaluated is read again and its
\* evaluation function does not run
C29_Witness ==
  \E w \in Watchers :
    /\ lazy[w]
    /\ evalLog.who = w
    /\ evalLog.reads = {}
    /\ evalLog.evals[w] = 1 /\ evalLog.returned[w] = 1
    /\ ~dirty[w]
    /\ evalLog.n >= 4
    /\ \E d \in deps[w] : val[d] /= "0"

\* C30: when a watcher R reads a lazy watcher L during its evaluation, R ends
\* that evaluation subscribed to every Dep that L currently depends on, so
\* that a later write to any of those fields both marks L dirty and
\* invalidates R.
C30_ReaderSubscribedToDepsOfComputed ==
  \A p \in evalLog.reads :
    \A d \in deps[p[2]] :
      /\ d \in deps[p[1]]
      /\ p[1] \in Range(subs[d])
      /\ p[2] \in Range(subs[d])
\* ------------------------------------------------------- claims: run()
LastRun == runLog'[Len(runLog')]
RunEvaluated == Len(runLog') = Len(runLog) + 1 /\ LastRun.evald
RunEffect(changed) ==
  LET w == LastRun.id
  IN /\ LastRun.cb <=> changed
     /\ LastRun.cb => /\ LastRun.newValue = LastRun.got
                      /\ LastRun.oldValue = value[w]
                      /\ value'[w] = LastRun.got
     /\ ~LastRun.cb => value'[w] = value[w]

\* C31: run() on an active watcher evaluates and calls the callback with
\* (newValue, oldValue), storing the new value, exactly when the new value
\* is another value than the stored one, or is an object, or the watcher is
\* deep; an unchanged primitive of a watcher that is not deep calls nothing
\* and leaves the stored value alone.
C31_RunCallsBackOnChange ==
  [][RunEvaluated =>
       RunEffect(LastRun.got /= value[LastRun.id] \/ LastRun.got = Obj
                 \/ deep[LastRun.id])]_vars

\* C31, with "differs" read as the operator !== of the source, under which
\* NaN differs from NaN
C31_RunCallsBackOnStrictInequality ==
  [][RunEvaluated =>
       RunEffect(~strictEq(LastRun.got, value[LastRun.id])
                 \/ LastRun.got = Obj \/ deep[LastRun.id])]_vars

\* a watcher that is not deep evaluated NaN over a stored NaN, and another
\* an unchanged number
C31_Witness ==
  /\ \E i \in 1..Len(runLog) :
       runLog[i].evald /\ ~runLog[i].deep /\ runLog[i].got = NaN
       /\ runLog[i].cb /\ runLog[i].oldValue = NaN
  /\ \E i \in 1..Len(runLog) :
       runLog[i].evald /\ ~runLog[i].cb /\ ~runLog[i].deep /\ runLog[i].got \in Vals

\* ----------------------------------------------- claims: updated hooks
UpdatedCalls(log, i) == Len(SelectSeq(log[i], LAMBDA h : h = "updated"))
NewUpdated == \E i \in Watchers : UpdatedCalls(hookLog', i) > UpdatedCalls(hookLog, i)

\* the instances of queue q that are mounted and not destroyed in V, from
\* the last entry to the first
RECURSIVE UpdatedOf(_, _)
UpdatedOf(q, V) ==
  IF q = <<>> THEN <<>>
  ELSE LET i == q[Len(q)].id
       IN (IF V[i].isMounted /\ ~V[i].isDestroyed THEN <<i>> ELSE <<>>)
          \o UpdatedOf(SubSeq(q, 1, Len(q) - 1), V)

AfterRunsAndReset ==
  /\ phase = "loop" /\ index >= Len(queue)
  /\ queue' = <<>> /\ has' = {} /\ index' = 0 /\ ~waiting' /\ ~flushing'
  /\ \A i \in Watchers :
       UpdatedCalls(hookLog', i) - UpdatedCalls(hookLog, i)
         = Len(SelectSeq(updatedLog', LAMBDA x : x = i))

OldNodes(ch) == SelectSeq(ch, LAMBDA e : e <= Len(prevCh))

\* C33: in removeOnly mode the diff of two child lists never places a host
\* node that is already attached: the old nodes that stay keep their order in
\* the parent; matching, patching, creation and removal go on as with moves:
\* after a diff of lists with unique keys a new child has the host node of
\* the old child that is the same vnode, or else a created one, and the
\* parent holds the host nodes of the new list and no other.
C33_RemoveOnlyNeverRepositions ==
  ~canMove =>
    /\ Moves(hostOps) = {}
    /\ \A i \in 1..Len(OldNodes(parentElm)) : \A j \in 1..Len(OldNodes(parentElm)) :
         i < j => OldNodes(parentElm)[i] < OldNodes(parentElm)[j]
    /\ (patching = "done" /\ UniqueKeys(prevCh) /\ UniqueKeys(newCh)) =>
         /\ \A i \in 1..Len(newCh) :
              /\ \A j \in 1..Len(prevCh) :
                   sameVnode(prevCh[j], newCh[i]) => newCh[i].elm = prevCh[j].elm
              /\ (\A j \in 1..Len(prevCh) : ~sameVnode(prevCh[j], newCh[i]))
                   => newCh[i].elm > Len(prevCh)
         /\ {parentElm[i] : i \in 1..Len(parentElm)}
              = {newCh[i].elm : i \in 1..Len(newCh)}

\* a finished removeOnly diff that reused old nodes in another order than
\* the new list has them, created a node and removed one
C33_Witness ==
  /\ patching = "done" /\ ~canMove /\ UniqueKeys(prevCh) /\ UniqueKeys(newCh)
  /\ parentElm /= [i \in 1..Len(newCh) |-> newCh[i].elm]
  /\ \E i \in 1..Len(newCh) : \E j \in 1..Len(newCh) :
       i < j /\ newCh[j].elm < newCh[i].elm /\ newCh[i].elm <= Len(prevCh)
  /\ \E i \in 1..Len(hostOps) : hostOps[i].op = "createElement"
  /\ \E i \in 1..Len(hostOps) : hostOps[i].op = "removeChild"

\* --------------------------------------------- patch: removal hooks
\* One vnode with data is removed.  Its module remove hooks are numbered
\* from 1, its own remove hook (data.hook.remove) is hook 0; a component
\* placeholder has the root vnode of its instance as inner vnode, which has
\* data and may have a remove hook of its own.  A hook is named by the
\* level of its vnode (1: the removed vnode, 2: the inner one) and its number.
MaxRemoveHooks == 2
InnerKinds == {"none", "data", "hook"}
RemoveHooks == {1, 2} \X (0..MaxRemoveHooks)

\* removeNode(el): parent.removeChild(el) when el has a parent
removeHostNode(S) ==
  IF S.host.attached
  THEN [S EXCEPT !.host = [attached |-> FALSE, detaches |-> @.detaches + 1]]
  ELSE S

\* the function remove() that createRmCb returns
remove_(S) ==
  LET S1 == [S EXCEPT !.rm.listeners = @ - 1]
  IN IF S1.rm.listeners = 0 THEN removeHostNode(S1) ELSE S1

\* a remove hook is called with (vnode, rm): it calls rm() before it returns
\* when it is in sync, and keeps rm for later otherwise
invokeRemoveHook(S, h, sync) ==
  IF h \in sync THEN remove_(S) ELSE [S EXCEPT !.rm.held = @ \cup {h}]

\* for (i = 0; i < cbs.remove.length; ++i) cbs.remove[i](vnode, rm)
RECURSIVE invokeModuleHooks(_, _, _, _)
invokeModuleHooks(S, level, i, sync) ==
  IF i > cbsRemove THEN S
  ELSE invokeModuleHooks(invokeRemoveHook(S, <<level, i>>, sync), level, i + 1, sync)

\* mutant: the own hook of the vnode is not counted
listeners_ModulesOnly == cbsRemove

\* removeAndInvokeRemoveHook: const listeners = cbs.remove.length + 1
listeners == cbsRemove + 1

\* removeAndInvokeRemoveHook(vnode, rm) of a vnode with data
RECURSIVE removeAndInvokeRemoveHook(_, _, _)
removeAndInvokeRemoveHook(S, level, sync) ==
  LET S1 == IF level = 1
            THEN [S EXCEPT !.rm = [created |-> TRUE, listeners |-> listeners,
                                   held |-> {}, late |-> 0]]
            ELSE [S EXCEPT !.rm.listeners = @ + listeners]
      S2 == IF level = 1 /\ rmVnode.inner /= "none"
            THEN removeAndInvokeRemoveHook(S1, 2, sync)
            ELSE S1
      S3 == invokeModuleHooks(S2, level, 1, sync)
      own == IF level = 1 THEN rmVnode.hook ELSE rmVnode.inner = "hook"
  IN IF own THEN invokeRemoveHook(S3, <<level, 0>>, sync) ELSE remove_(S3)

Removal == [rm |-> rm, host |-> host]

\* removeVnodes reaches the vnode: its hooks are called, those of sync
\* complete at once
RemoveVnode(sync) ==
  /\ ~rm.created
  /\ LET S == removeAndInvokeRemoveHook(Removal, 1, sync)
     IN rm' = S.rm /\ host' = S.host
  /\ UNCHANGED <<cbsRemove, rmVnode>>
  /\ UNCHANGED <<watcherVars, subs, val, schedVars, phase, cbWrites, budget,
                 histVars, patchVars, treeVars, setterLog, notifyVars,
                 heapVars, lifeVars, evalVars, sameVars, targetVars, lateVars>>

\* a hook that kept rm calls it (the end of a leave transition)
RemoveHookDone(h) ==
  /\ h \in rm.held
  /\ LET S == remove_([Removal EXCEPT !.rm.held = @ \ {h}, !.rm.late = @ + 1])
     IN rm' = S.rm /\ host' = S.host
  /\ UNCHANGED <<cbsRemove, rmVnode>>
  /\ UNCHANGED <<watcherVars, subs, val, schedVars, phase, cbWrites, budget,
                 histVars, patchVars, treeVars, setterLog, notifyVars,
                 heapVars, lifeVars, evalVars, sameVars, targetVars, lateVars>>

InitRemove ==
  /\ NoWatchers /\ NoPatch /\ NoTree
  /\ setterLog = [tick |-> 0, d |-> 0, v |-> "0", calls |-> <<>>]
  /\ NoNotify /\ NoHeap /\ NoLife /\ NoEvals
  /\ cbsRemove \in 0..MaxRemoveHooks
  /\ rmVnode \in [hook : BOOLEAN, inner : InnerKinds]
  /\ rm = [created |-> FALSE, listeners |-> 0, held |-> {}, late |-> 0]
  /\ host = [attached |-> TRUE, detaches |-> 0]
  /\ NoSame /\ NoTarget /\ NoLate

NextRemove ==
  \/ \E sync \in SUBSET RemoveHooks : RemoveVnode(sync)
  \/ \E h \in RemoveHooks : RemoveHookDone(h)

SpecRemove == InitRemove /\ [][NextRemove]_vars

\* ---------------------------------------------- claims: removal hooks
\* C34: the host node of a removed vnode with data is detached once, and not
\* before every remove hook called for it (the module hooks, and the vnode's
\* own hook or the default completion) has called the shared callback,
\* whatever the order and the time of these calls.
C34_DetachedOnceAfterAllHooks ==
  /\ host.detaches <= 1
  /\ host.attached <=> host.detaches = 0
  /\ host.detaches = 1 => rm.created /\ rm.held = {}
  /\ (rm.created /\ rm.held = {}) => host.detaches = 1
  /\ rm.created => rm.listeners = Cardinality(rm.held)

\* the last of several hooks that kept the callback, of the vnode and of the
\* root vnode of its component instance, has called it
C34_Witness ==
  /\ host.detaches = 1 /\ rm.held = {} /\ rm.late >= 3
  /\ cbsRemove = MaxRemoveHooks /\ rmVnode.hook /\ rmVnode.inner = "hook"

\* ------------------------------------------------- patch: sameVnode
\* Two vnodes of any shape: elements (input among them), comments, with and
\* without data, vnodes of async components (a placeholder carries its
\* factory)
SameKeys == {"a", "b"}
SameTags == {"input", "div", "undefined"}
DataKinds == {"undefined", "notype", "text", "password", "checkbox"}
Factories == {1, 2}
AnyVNodes ==
  {FullVNode(k, t, c, d, f, p) :
     k \in SameKeys, t \in SameTags, c \in BOOLEAN, d \in DataKinds,
     f \in {0} \cup Factories, p \in BOOLEAN}
SameVNodes == {v \in AnyVNodes : v.isAsyncPlaceholder => v.asyncFactory /= 0}

\* sameVnode(a, b) and sameVnode(b, a) are evaluated
Compare ==
  /\ ~sameLog.done
  /\ sameLog' = [done |-> TRUE,
                 ab |-> sameVnode(sameArgs[1], sameArgs[2]),
                 ba |-> sameVnode(sameArgs[2], sameArgs[1])]
  /\ UNCHANGED <<watcherVars, subs, val, schedVars, phase, cbWrites, budget,
                 histVars, patchVars, treeVars, setterLog, notifyVars,
                 heapVars, lifeVars, evalVars, removeVars, factoryError,
                 sameArgs, targetVars, lateVars>>

InitSame ==
  /\ NoWatchers /\ NoPatch /\ NoTree
  /\ setterLog = [tick |-> 0, d |-> 0, v |-> "0", calls |-> <<>>]
  /\ NoNotify /\ NoHeap /\ NoLife /\ NoEvals /\ NoRemoval
  /\ factoryError \in SUBSET {1}
  /\ sameArgs \in SameVNodes \X SameVNodes
  /\ sameLog = [done |-> FALSE, ab |-> FALSE, ba |-> FALSE]
  /\ NoTarget /\ NoLate

NextSame == Compare

SpecSame == InitSame /\ [][NextSame]_vars

\* ------------------------------------------------- claims: sameVnode
SyncSame(a, b, typesAgree) ==
  /\ a.tag = b.tag
  /\ a.isComment = b.isComment
  /\ (a.data = "undefined") <=> (b.data = "undefined")
  /\ a.tag = "input" => typesAgree

Unresolved(v) == v.isAsyncPlaceholder
SameLiveFactory(a, b) ==
  a.asyncFactory = b.asyncFactory /\ a.asyncFactory \notin factoryError

MaxDepth == 3
MaxTargetReads == 3
Hook == [kind |-> "hook", w |-> 0]
Get(w) == [kind |-> "get", w |-> w]

\* mutant: popTarget without the stack, the slot is cleared
popTarget_Clear(st) == [target |-> 0, targetStack |-> st.targetStack]

\* pushTarget(target): an undefined target is pushed as 0
pushTarget(st, tg) ==
  [target |-> tg, targetStack |-> Append(st.targetStack, tg)]

\* popTarget()
popTarget(st) ==
  LET rest == SubSeq(st.targetStack, 1, Len(st.targetStack) - 1)
  IN [target |-> IF rest = <<>> THEN 0 ELSE rest[Len(rest)],
      targetStack |-> rest]

Slot == [target |-> target, targetStack |-> targetStack]
SetSlot(st) == target' = st.target /\ targetStack' = st.targetStack

InFrames(w) == \E i \in 1..Len(frames) : frames[i] = Get(w)

baseVars == <<watcherVars, subs, val, schedVars, phase, cbWrites, budget,
              histVars, patchVars, treeVars, setterLog, notifyVars, heapVars,
              lifeVars, evalVars, removeVars, sameVars>>
otherVars == <<baseVars, lateVars>>

\* Watcher.get(): pushTarget(this), then the getter starts
GetBegins(w) ==
  /\ ~unwinding
  /\ Len(frames) < MaxDepth
  /\ ~InFrames(w)
  /\ SetSlot(pushTarget(Slot, w))
  /\ frames' = Append(frames, Get(w))
  /\ newDeps' = [newDeps EXCEPT ![w] = {}]
  /\ readLog' = [readLog EXCEPT !.nested = @ /\ frames /= <<>>]
  /\ UNCHANGED <<unwinding, otherVars>>

\* callHook(vm, hook): pushTarget(), then the handlers start
HookBegins ==
  /\ ~unwinding
  /\ Len(frames) < MaxDepth
  /\ SetSlot(pushTarget(Slot, 0))
  /\ frames' = Append(frames, Hook)
  /\ readLog' = [readLog EXCEPT !.nested = @ /\ frames /= <<>>]
  /\ UNCHANGED <<unwinding, newDeps, otherVars>>

\* reactiveGetter of field d: if (Dep.target) dep.depend()
ReadField(d) ==
  /\ ~unwinding
  /\ readLog.n < MaxTargetReads
  /\ newDeps' = IF target /= 0 THEN [newDeps EXCEPT ![target] = @ \cup {d}]
                  ELSE newDeps
  /\ readLog' = [readLog EXCEPT !.n = @ + 1, !.d = d, !.subscribed = target,
                                 !.after = readLog.nested]
  /\ UNCHANGED <<target, targetStack, frames, unwinding, otherVars>>

\* the getter of the innermost get() returns or throws (th), or an error
\* from below arrives: the finally block runs popTarget(); the error of a
\* watcher that is no user watcher goes on to the caller
GetEnds(th) ==
  /\ frames /= <<>>
  /\ frames[Len(frames)] /= Hook
  /\ unwinding => th
  /\ SetSlot(popTarget(Slot))
  /\ frames' = SubSeq(frames, 1, Len(frames) - 1)
  /\ unwinding' = th
  /\ readLog' = [readLog EXCEPT !.nested = Len(frames) > 1]
  /\ UNCHANGED <<newDeps, otherVars>>

\* invokeWithErrorHandling catches the error of a handler: the hook goes on
HookCatches ==
  /\ unwinding
  /\ frames /= <<>>
  /\ frames[Len(frames)] = Hook
  /\ unwinding' = FALSE
  /\ UNCHANGED <<target, targetStack, frames, newDeps, readLog, otherVars>>

\* the handlers have returned: popTarget()
HookEnds ==
  /\ ~unwinding
  /\ frames /= <<>>
  /\ frames[Len(frames)] = Hook
  /\ SetSlot(popTarget(Slot))
  /\ frames' = SubSeq(frames, 1, Len(frames) - 1)
  /\ readLog' = [readLog EXCEPT !.nested = Len(frames) > 1]
  /\ UNCHANGED <<unwinding, newDeps, otherVars>>

\* the error leaves the outermost get()
Uncaught ==
  /\ unwinding
  /\ frames = <<>>
  /\ unwinding' = FALSE
  /\ UNCHANGED <<target, targetStack, frames, newDeps, readLog, otherVars>>

InitTarget ==
  /\ NoWatchers /\ NoPatch /\ NoTree
  /\ setterLog = [tick |-> 0, d |-> 0, v |-> "0", calls |-> <<>>]
  /\ NoNotify /\ NoHeap /\ NoLife /\ NoEvals /\ NoRemoval /\ NoSame
  /\ NoTarget /\ NoLate

NextTarget ==
  \/ \E w \in Watchers : GetBegins(w)
  \/ HookBegins
  \/ \E d \in Fields : ReadField(d)
  \/ \E th \in BOOLEAN : GetEnds(th)
  \/ HookCatches
  \/ HookEnds
  \/ Uncaught

SpecTarget == InitTarget /\ [][NextTarget]_vars

\* ------------------------------------------- claims: the target stack
\* the watcher whose getter is running: the innermost call when it is a
\* get(), none inside a hook and when nothing is in progress
Evaluating == IF frames = <<>> THEN 0 ELSE frames[Len(frames)].w

\* the slot names the watcher whose getter is running, and the stack has
\* one entry for every call in progress
SlotIsInnermost ==
  /\ target = Evaluating
  /\ frames = <<>> => target = 0 /\ targetStack = <<>>
  /\ Len(targetStack) = Len(frames)

\* a read subscribes the watcher whose getter is running and no other, and
\* nothing in a hook or outside every evaluation
ReadSubscribesInnermost ==
  readLog'.n = readLog.n + 1 =>
    /\ readLog'.subscribed = Evaluating
    /\ \A w \in Watchers :
         newDeps'[w] = IF w = Evaluating THEN newDeps[w] \cup {readLog'.d}
                       ELSE newDeps[w]

\* C36: the slot of the active watcher behaves as a stack: through nested
\* evaluations and hook calls, returning or throwing, the slot names the
\* watcher whose getter is running, so the end of an inner evaluation
\* restores the outer watcher and a later read subscribes that watcher; with
\* no evaluation in progress the slot is empty and a read subscribes nothing.
C36_ActiveSlotIsAStack ==
  []SlotIsInnermost /\ [][ReadSubscribesInnermost]_vars

\* an outer getter has read a field after an inner evaluation and a hook
\* ended inside it
C36_Witness ==
  /\ Len(frames) = 1 /\ readLog.n > 0 /\ readLog.subscribed = frames[1].w
  /\ frames[1].kind = "get" /\ readLog.after /\ readLog.nested
  /\ \E w \in Watchers : w /= frames[1].w /\ newDeps[w] /= {}
  /\ target = frames[1].w

\* ------------------------------------------------------ next-tick: batches
\* callbacks handed to nextTick; they are numbered in registration order
MaxTicks == 4

\* mutant: the timer primitive is armed by every call
armTimer_Always(T) == [T EXCEPT !.pending = TRUE, !.timers = @ + 1]

\* if (!pending) { pending = true; timerFunc() }
armTimer(T) ==
  IF ~T.pending THEN [T EXCEPT !.pending = TRUE, !.timers = @ + 1] ELSE T

\* nextTick(cb): the wrapper of cb is pushed and the timer armed if none is
\* pending (history: the batch that was current, whether a callback was running)
nextTick_(T) ==
  armTimer([T EXCEPT !.callbacks = Append(@, Len(T.registered) + 1),
                     !.registered = Append(@, [batch |-> T.batch,
                                               inside |-> T.running])])

\* code outside every batch, or the callback that is running, calls nextTick
NextTickCalled ==
  /\ Len(tick.registered) < MaxTicks
  /\ tick.running \/ tick.i = 0
  /\ tick' = nextTick_(tick)
  /\ UNCHANGED <<baseVars, targetVars, ka, dying, router>>

\* the timer fires: flushCallbacks clears pending, copies the array and
\* empties it
TimerFires ==
  /\ tick.timers > 0
  /\ tick.i = 0
  /\ tick' = [tick EXCEPT !.pending = FALSE, !.copies = tick.callbacks,
                          !.callbacks = <<>>, !.i = 1, !.batch = @ + 1,
                          !.timers = @ - 1]
  /\ UNCHANGED <<baseVars, targetVars, ka, dying, router>>

\* copies[i]() is called
CopyBegins ==
  /\ tick.i >= 1 /\ ~tick.running
  /\ tick.i <= Len(tick.copies)
  /\ tick' = [tick EXCEPT !.running = TRUE,
                          !.ran = Append(@, [cb |-> tick.copies[tick.i],
                                             batch |-> tick.batch])]
  /\ UNCHANGED <<baseVars, targetVars, ka, dying, router>>

\* the callback returns, or throws and the wrapper hands the error to
\* handleError; the loop goes on
CopyEnds(throws) ==
  /\ tick.running
  /\ tick' = [tick EXCEPT !.running = FALSE, !.i = @ + 1,
                          !.errors = IF throws THEN @ + 1 ELSE @]
  /\ UNCHANGED <<baseVars, targetVars, ka, dying, router>>

\* the loop over the copies is over
TickFlushEnd ==
  /\ tick.i >= 1 /\ ~tick.running
  /\ tick.i > Len(tick.copies)
  /\ tick' = [tick EXCEPT !.i = 0, !.copies = <<>>]
  /\ UNCHANGED <<baseVars, targetVars, ka, dying, router>>

InitTick == NoWatchers /\ NoPatch /\ NoTree /\ NoObs

TickStep ==
  \/ NextTickCalled
  \/ TimerFires
  \/ CopyBegins
  \/ \E throws \in BOOLEAN : CopyEnds(throws)
  \/ TickFlushEnd

\* the platform fires an armed timer, and a callback that was called ends
SpecTick ==
  /\ InitTick
  /\ [][TickStep]_vars
  /\ WF_vars(TimerFires)
  /\ WF_vars(CopyBegins)
  /\ WF_vars(\E throws \in BOOLEAN : CopyEnds(throws))
  /\ WF_vars(TickFlushEnd)

\* ------------------------------------------------- claims: next-tick
\* callback c has been called
Ran(c) == \E k \in DOMAIN tick.ran : tick.ran[k].cb = c

\* the calls made so far are in registration order without repetition, each in
\* a batch later than the one that was current when it was registered; one
\* timer at most is armed, and one is armed while callbacks wait
TickBatches ==
  /\ \A j, k \in DOMAIN tick.ran : j < k => tick.ran[j].cb < tick.ran[k].cb
  /\ \A k \in DOMAIN tick.ran :
       tick.ran[k].batch > tick.registered[tick.ran[k].cb].batch
  /\ tick.timers <= 1
  /\ tick.callbacks /= <<>> => tick.pending /\ tick.timers = 1

\* the call of nextTick calls nothing
NotSynchronous ==
  Len(tick'.registered) > Len(tick.registered) => tick'.ran = tick.ran

\* C37: every callback handed to nextTick is called exactly once, not inside
\* the nextTick call, in registration order; the timer primitive is armed at
\* most once per pending batch; a callback registered while a batch is run is
\* called in a later batch.
C37_CallbacksRunOnceInLaterBatch ==
  /\ []TickBatches
  /\ [][NotSynchronous]_vars
  /\ \A c \in 1..MaxTicks : (Len(tick.registered) >= c) ~> Ran(c)

\* a callback registered by a running callback of the first batch has been
\* called in the second, after a callback that threw
C37_Witness ==
  /\ Len(tick.ran) >= 3
  /\ tick.errors >= 1
  /\ \E k \in DOMAIN tick.ran :
       /\ tick.registered[tick.ran[k].cb].inside
       /\ tick.registered[tick.ran[k].cb].batch = 1
       /\ tick.ran[k].batch = 2

\* ------------------------------------------------- keep-alive: the cache
\* One <keep-alive> instance followed through its renders, with more keys
\* than SpecLife has constructors. The slot's component has no key of its
\* own, so the cache key names the component and so does the vnode's tag.
CacheKeys == {"a", "b", "c"}
MaxMax == 2
MaxRenders == 5

\* mutant: a hit leaves the key where it is
refresh_Keep(ks, key) == ks

\* remove(keys, key); keys.push(key)
refresh(ks, key) == Append(remove(ks, key), key)

\* pruneCacheEntry(cache, key, keys, current): the instance of the cached
\* vnode is destroyed unless it is the one being rendered
pruneCacheEntry_(K, key, current) ==
  LET cached == K.cache[key]
      K1 == IF cached /= 0 /\ (current = "none" \/ key /= current)
            THEN [K EXCEPT !.destroyed = @ \cup {cached}]
            ELSE K
  IN [K1 EXCEPT !.cache[key] = 0, !.keys = remove(@, key)]

\* for (const key in cache) pruneCacheEntry(...), over the keys in ks
RECURSIVE pruneEach(_, _, _, _)
pruneEach(K, ks, doomed, current) ==
  IF ks = <<>> THEN K
  ELSE pruneEach(IF ks[1] \in doomed
                 THEN pruneCacheEntry_(K, ks[1], current) ELSE K,
                 Tail(ks), doomed, current)

\* the cache logic of render for a component that matches include / exclude
cacheLookup(K, key) ==
  IF K.cache[key] /= 0
  THEN [K EXCEPT !.keys = refresh(@, key)]
  ELSE LET K1 == [K EXCEPT !.cache[key] = K.made + 1, !.made = @ + 1,
                           !.keys = Append(@, key)]
       IN IF K.max /= 0 /\ Len(K1.keys) > K.max
          THEN pruneCacheEntry_(K1, K1.keys[1], K.vnode)
          ELSE K1

\* created(): an empty cache and key list
KeepAliveCreated(m) ==
  /\ ~ka.alive /\ ka.clock = 0
  /\ ka' = [ka EXCEPT !.cache = [k \in CacheKeys |-> 0], !.keys = <<>>,
                      !.max = m, !.alive = TRUE,
                      !.last = [k \in CacheKeys |-> 0], !.clock = 1]
  /\ UNCHANGED <<baseVars, targetVars, tick, dying, router>>

\* render() with component key in the slot, then _update sets _vnode; a
\* component that include / exclude rule out is returned as it is
KeepAliveRender(key, matched) ==
  /\ ka.alive
  /\ ka.clock <= MaxRenders
  /\ LET K == IF matched THEN cacheLookup(ka, key) ELSE ka
     IN ka' = [K EXCEPT !.vnode = key, !.clock = @ + 1,
                        !.last[key] = IF matched THEN ka.clock ELSE @]
  /\ UNCHANGED <<baseVars, targetVars, tick, dying, router>>

\* the watcher of include / exclude: pruneCache drops the entries whose name
\* the new rule does not keep
KeepAlivePrune(keep) ==
  /\ ka.alive
  /\ \E k \in CacheKeys \ keep : ka.cache[k] /= 0
  /\ ka' = pruneEach(ka, ka.keys, CacheKeys \ keep, ka.vnode)
  /\ UNCHANGED <<baseVars, targetVars, tick, dying, router>>

\* destroyed(): every entry is pruned
KeepAliveDestroyed ==
  /\ ka.alive
  /\ ka' = [pruneEach(ka, ka.keys, CacheKeys, "none") EXCEPT !.alive = FALSE]
  /\ UNCHANGED <<baseVars, targetVars, tick, dying, router>>

InitCache == NoWatchers /\ NoPatch /\ NoTree /\ NoObs

NextCache ==
  \/ \E m \in 0..MaxMax : KeepAliveCreated(m)
  \/ \E key \in CacheKeys, matched \in BOOLEAN : KeepAliveRender(key, matched)
  \/ \E keep \in SUBSET CacheKeys : KeepAlivePrune(keep)
  \/ KeepAliveDestroyed

SpecCache == InitCache /\ [][NextCache]_vars

\* ------------------------------------------------- claims: keep-alive cache
\* the keys that have an entry
Cached(K) == {k \in DOMAIN K.cache : K.cache[k] /= 0}

\* the key list holds the cached keys, each once, the one rendered longer
\* ago first, and no more than max of them when max is given
KeysAreTheCache ==
  /\ Range(ka.keys) = Cached(ka)
  /\ \A i, j \in DOMAIN ka.keys :
       i < j => ka.keys[i] /= ka.keys[j] /\ ka.last[ka.keys[i]] < ka.last[ka.keys[j]]
  /\ ka.max /= 0 => Cardinality(Cached(ka)) <= ka.max

\* a render that drops an entry drops the one rendered longest ago
EvictsLeastRecent ==
  (ka.alive /\ ka'.alive /\ ka'.clock > ka.clock) =>
    \A e \in Cached(ka) \ Cached(ka') :
      \A k \in Cached(ka) : ka.last[e] <= ka.last[k]

\* C38: the key list of keep-alive holds exactly the keys that have a cache
\* entry, each once, from the least to the most recently rendered; with a
\* max the entries never exceed max after a render, and the entry a render
\* evicts is the least recently rendered one.
C38_KeysAreLruOrderOfCache ==
  []KeysAreTheCache /\ [][EvictsLeastRecent]_vars

\* with max = 2: the older of two entries was rendered again, and the next
\* new component has evicted the other one
C38_Witness ==
  /\ ka.alive /\ ka.max = 2
  /\ ka.keys = <<"a", "c">>
  /\ ka.last["b"] > 0 /\ ka.cache["b"] = 0
  /\ ka.last["a"] > ka.last["b"]
  /\ ka.made = 3 /\ ka.destroyed = {2}

\* ------------------------------------------------- $destroy, call by call
\* One mounted instance whose hooks may call $destroy themselves. frames
\* holds the hooks of the instance that are running, outermost first; a
\* $destroy call stays in its hook until the hook returns or throws
\* (callHook catches what a handler throws).
MaxOwnWatchers == 2
MaxDestroyCalls == 4

\* Watcher.teardown() on each of ws: a no-op for an inactive watcher
\* (history: the teardowns that found the watcher active)
RECURSIVE teardownAll(_, _)
teardownAll(D, ws) ==
  IF ws = <<>> THEN D
  ELSE LET w == ws[1]
           D1 == IF D.watchers[w]
                 THEN [D EXCEPT !.watchers[w] = FALSE, !.teardowns[w] = @ + 1]
                 ELSE D
       IN teardownAll(D1, Tail(ws))

\* $destroy up to the call of the beforeDestroy hook
destroyBegins(D) ==
  IF D.isBeingDestroyed THEN D
  ELSE [D EXCEPT !.hooks.beforeDestroy = @ + 1,
                 !.frames = Append(@, "beforeDestroy")]

\* $destroy from the return of the beforeDestroy hook to the call of the
\* destroyed hook: vm._watcher.teardown(), then every entry of vm._watchers
\* from the last to the first (the render watcher is its first entry)
destroyGoesOn(D) ==
  LET n == Len(D.watchers)
      D1 == [D EXCEPT !.isBeingDestroyed = TRUE]
      D2 == teardownAll(D1, <<1>> \o [i \in 1..n |-> n + 1 - i])
      D3 == [D2 EXCEPT !.vmCount = @ - 1, !.isDestroyed = TRUE]
  IN [D3 EXCEPT !.hooks.destroyed = @ + 1,
                !.frames = Append(SubSeq(@, 1, Len(@) - 1), "destroyed")]

\* vm.$destroy() is called, by code outside or by the hook that is running
DestroyCalled ==
  /\ dying.watchers /= <<>>
  /\ dying.calls < MaxDestroyCalls
  /\ dying' = [destroyBegins(dying) EXCEPT !.calls = @ + 1]
  /\ UNCHANGED <<baseVars, targetVars, tick, ka, router>>

\* componentVNodeHooks.destroy(vnode) is called for the instance's
\* placeholder: $destroy, or deactivation of a kept-alive instance
VnodeDestroyCalled ==
  /\ dying.watchers /= <<>>
  /\ dying.calls < MaxDestroyCalls
  /\ dying' = [(IF dying.isDestroyed THEN dying
                ELSE IF ~dying.keepAlive THEN destroyBegins(dying)
                ELSE [dying EXCEPT !.inactive = TRUE])
               EXCEPT !.calls = @ + 1]
  /\ UNCHANGED <<baseVars, targetVars, tick, ka, router>>

\* the running hook returns or throws
DyingHookEnds ==
  /\ dying.frames /= <<>>
  /\ dying' = IF dying.frames[Len(dying.frames)] = "beforeDestroy"
              THEN destroyGoesOn(dying)
              ELSE [dying EXCEPT !.frames = SubSeq(@, 1, Len(@) - 1)]
  /\ UNCHANGED <<baseVars, targetVars, tick, ka, router>>

\* the instance is mounted, with its render watcher and the watchers of its
\* watch options, as a root or under a placeholder, kept alive or not
InitDying ==
  /\ NoWatchers /\ NoPatch /\ NoTree
  /\ setterLog = [tick |-> 0, d |-> 0, v |-> "0", calls |-> <<>>]
  /\ NoNotify /\ NoHeap /\ NoLife /\ NoEvals /\ NoRemoval /\ NoSame
  /\ NoTarget /\ NoTick /\ NoKeepAlive /\ NoRouter
  /\ \E n \in 1..MaxOwnWatchers, k \in BOOLEAN :
       dying = [isBeingDestroyed |-> FALSE, isDestroyed |-> FALSE,
                keepAlive |-> k, inactive |-> FALSE,
                watchers |-> [w \in 1..n |-> TRUE], vmCount |-> 1,
                frames |-> <<>>, calls |-> 0,
                hooks |-> [beforeDestroy |-> 0, destroyed |-> 0],
                teardowns |-> [w \in 1..n |-> 0]]

NextDying ==
  \/ DestroyCalled
  \/ VnodeDestroyCalled
  \/ DyingHookEnds

SpecDying == InitDying /\ [][NextDying]_vars

\* ------------------------------------------------- claims: $destroy
\* C39: whatever $destroy calls are made on an instance, from its own hooks
\* as well, beforeDestroy and destroyed are each called at most once and
\* each of its watchers is torn down once.
C39_DestroyedOnce ==
  /\ dying.hooks.beforeDestroy <= 1
  /\ dying.hooks.destroyed <= 1
  /\ \A w \in DOMAIN dying.teardowns : dying.teardowns[w] <= 1
  /\ dying.isDestroyed /\ dying.frames = <<>> =>
       /\ dying.hooks.beforeDestroy = 1 /\ dying.hooks.destroyed = 1
       /\ \A w \in DOMAIN dying.teardowns : dying.teardowns[w] = 1

\* ------------------------------------------------- router: transitions
\* A navigation is known by its number, which stands for the route object
\* that match() made for it; route 0 is START. Its guards are the entries of
\* the two queues of confirmTransition; a guard that has been called answers
\* later, by calling next once.
Locations == {"a", "b"}
MaxNavs == 3
MaxGuards == 2
MaxEnterGuards == 1
Answers == {"undefined", "false", "error"}

\* mutant: a navigation never sees that another one has become pending
replaced_Never(R, n) == FALSE

\* this.pending !== route
replaced(R, n) == R.pending /= n

\* the path of the current route
currentPath(R) == IF R.current = 0 THEN "/" ELSE R.navs[R.current].to

\* abort(err): onAbort(err)
abort(R, n, err) ==
  [R EXCEPT !.navs[n].state = "ended", !.navs[n].result = err]

\* step(index) of runQueue for the queue navigation n is in: the iterator
\* calls the guard at index, unless another navigation is pending; past the
\* end of the first queue the second is run, past the end of the second the
\* transition is confirmed: pending = null, onComplete -> updateRoute
RECURSIVE step(_, _)
step(R, n) ==
  LET nav == R.navs[n]
      len == IF nav.stage = 1 THEN nav.guards ELSE nav.enterGuards
  IN IF nav.index < len
     THEN IF replaced(R, n) THEN abort(R, n, "cancelled")
          ELSE [R EXCEPT !.navs[n].state = "guard", !.navs[n].calls = @ + 1]
     ELSE IF nav.stage = 1
     THEN step([R EXCEPT !.navs[n].stage = 2, !.navs[n].index = 0], n)
     ELSE IF replaced(R, n) THEN abort(R, n, "cancelled")
     ELSE [R EXCEPT !.pending = 0, !.current = n,
                    !.navs[n].state = "ended", !.navs[n].result = "complete"]

\* transitionTo(location): match, then confirmTransition: a route that is
\* the current one is aborted as duplicated, else the queue is built, the
\* route becomes pending and the queue is started (history: the navigations
\* that were waiting for a guard when this one was started / became pending)
transitionTo(R, to) ==
  LET n == Len(R.navs) + 1
      dup == to = currentPath(R)
      old == [k \in DOMAIN R.navs |->
                IF R.navs[k].state = "guard"
                THEN [R.navs[k] EXCEPT !.followed = TRUE,
                                       !.overtaken = @ \/ ~dup]
                ELSE R.navs[k]]
      nav == [to |-> to, guards |-> R.table[to].guards,
              enterGuards |-> R.table[to].enterGuards, stage |-> 1,
              index |-> 0, state |-> "new", result |-> "none",
              answer |-> "none", calls |-> 0, nexts |-> 0,
              followed |-> FALSE, overtaken |-> FALSE]
      R1 == [R EXCEPT !.navs = Append(old, nav)]
  IN IF dup THEN abort(R1, n, "duplicated")
     ELSE step([R1 EXCEPT !.pending = n], n)

\* the callback handed to the guard: next(false) and next(error) abort,
\* anything else but a location goes on with step(index + 1)
next(R, n, to) ==
  LET R1 == [R EXCEPT !.navs[n].nexts = @ + 1, !.navs[n].answer = to]
  IN IF to = "false" THEN abort(R1, n, "aborted")
     ELSE IF to = "error" THEN abort(R1, n, "error")
     ELSE step([R1 EXCEPT !.navs[n].index = @ + 1], n)

\* router.push(location) from the application
Navigate(to) ==
  /\ Len(router.navs) < MaxNavs
  /\ router' = transitionTo(router, to)
  /\ UNCHANGED <<baseVars, targetVars, tick, ka, dying>>

\* the guard that navigation n waits for calls next(to)
GuardAnswers(n, to) ==
  /\ n \in DOMAIN router.navs
  /\ router.navs[n].state = "guard"
  /\ router' = next(router, n, to)
  /\ UNCHANGED <<baseVars, targetVars, tick, ka, dying>>

\* the guard calls next(location): the navigation is aborted as redirected
\* and this.push(location) starts another one
GuardRedirects(n, to) ==
  /\ n \in DOMAIN router.navs
  /\ router.navs[n].state = "guard"
  /\ Len(router.navs) < MaxNavs
  /\ LET R1 == [router EXCEPT !.navs[n].nexts = @ + 1,
                              !.navs[n].answer = "location"]
     IN router' = transitionTo(abort(R1, n, "redirected"), to)
  /\ UNCHANGED <<baseVars, targetVars, tick, ka, dying>>

\* the route table gives every location its guards: those of the first
\* queue, and the enter guards and resolve hooks of the second (route a has
\* them, route b has none)
InitRouter ==
  /\ NoWatchers /\ NoPatch /\ NoTree
  /\ setterLog = [tick |-> 0, d |-> 0, v |-> "0", calls |-> <<>>]
  /\ NoNotify /\ NoHeap /\ NoLife /\ NoEvals /\ NoRemoval /\ NoSame
  /\ NoTarget /\ NoTick /\ NoKeepAlive /\ NoDying
  /\ \E g \in [Locations -> 1..MaxGuards] :
       router = [current |-> 0, pending |-> 0, navs |-> <<>>,
                 table |-> [to \in Locations |->
                              [guards |-> g[to],
                               enterGuards |-> IF to = "a" THEN MaxEnterGuards
                                               ELSE 0]]]

NextRouter ==
  \/ \E to \in Locations : Navigate(to)
  \/ \E n \in 1..MaxNavs, to \in Answers : GuardAnswers(n, to)
  \/ \E n \in 1..MaxNavs, to \in Locations : GuardRedirects(n, to)

SpecRouter == InitRouter /\ [][NextRouter]_vars

\* ------------------------------------------------- claims: router
\* the guards of a navigation are called one at a time: a guard is called by
\* the step that starts the navigation or by the previous guard's next
OneGuardAtATime ==
  \A n \in DOMAIN router.navs :
    LET nav == router.navs[n]
    IN /\ nav.calls - nav.nexts = IF nav.state = "guard" THEN 1 ELSE 0
       /\ nav.calls <= nav.guards + nav.enterGuards

\* navigation n has not completed
NotCompleted(n) ==
  router.navs[n].result /= "complete" /\ router.current /= n

\* C40 as stated: a navigation that was running its guards when a second
\* one started never completes and ends, if it ends, as cancelled; guards
\* run one after another.
C40_LaterNavigationCancelsEarlier ==
  /\ OneGuardAtATime
  /\ \A n \in DOMAIN router.navs :
       router.navs[n].followed =>
         NotCompleted(n) /\ router.navs[n].result \in {"none", "cancelled"}

\* C40 amended: a navigation that was running its guards when a second one,
\* to another route than the current one, became pending never completes;
\* when its guard lets it go on it is aborted as cancelled, and when its
\* guard calls next(false), next(error) or next(location) it is aborted as
\* that; guards run one after another.
C40_PendingNavigationCancelsEarlier ==
  /\ OneGuardAtATime
  /\ \A n \in DOMAIN router.navs :
       LET nav == router.navs[n]
       IN nav.overtaken =>
            /\ NotCompleted(n)
            /\ nav.result =
                 IF nav.state = "guard" THEN "none"
                 ELSE IF nav.answer = "false" THEN "aborted"
                 ELSE IF nav.answer = "error" THEN "error"
                 ELSE IF nav.answer = "location" THEN "redirected"
                 ELSE "cancelled"

\* the first navigation was overtaken by the second and cancelled when its
\* guard went on; the second has passed two guards and completed
C40_Witness ==
  /\ Len(router.navs) >= 2
  /\ router.navs[1].overtaken /\ router.navs[1].result = "cancelled"
  /\ router.navs[1].answer = "undefined"
  /\ router.navs[2].result = "complete" /\ router.navs[2].calls >= 2
  /\ router.current = 2 /\ router.pending = 0

====
